---- MODULE Spec2Model ----
(***************************************************************************)
(* Risk aggregation layer of the ganabosques search API.                   *)
(*                                                                         *)
(* The document store (db) is read by two request handlers:                *)
(*   get_risk_by_ids_and_type   POST /risk/by-ids-and-type                 *)
(*   get_adm3risk_filtered      POST /adm3risk/by-analysis-and-adm3        *)
(* A request is handled synchronously: a handler reads db and the payload  *)
(* and produces the response; Deliver hands the response to the client.    *)
(*                                                                         *)
(* Conventions.  An ObjectId is its canonical (lower-case hex) string,     *)
(* abbreviated ("x", "a", "d1", ...).  A Python dict is a function whose   *)
(* DOMAIN is its key set; a dict whose iteration order matters is a        *)
(* sequence of [k, v] entries.  An optional scalar is <<>> (None) or <<v>>.*)
(* A collection is the sequence of its documents in natural (find) order.  *)
(***************************************************************************)
EXTENDS Integers, Sequences, FiniteSets, TLC

VARIABLES db, req, resp

vars == <<db, req, resp>>

----------------------------------------------------------------------------
(* Bounds of the model *)

\* documents in Adm3Risk and FarmRisk together
MaxRows == 2
\* ids in a generated request id list
MaxReqLen == 2

----------------------------------------------------------------------------
(* Program constants *)

MAX_IDS == 500
FARMRISK_IN_BATCH == 8000

----------------------------------------------------------------------------
(* Values *)

Null == "null"
None == <<>>
Some(v) == <<v>>

\* bson.ObjectId.is_valid / ObjectId(s) / str(oid): a 24-digit hex string is
\* accepted in either case and printed in lower case; anything else is not
\* an ObjectId.  "Y" is the upper-case spelling of "y"; "zz" is malformed.
CanonicalIds ==
  {"x", "y", "a", "b", "c", "d1", "d2", "d3", "f1", "f2", "f3", "e1", "e2",
   "r1", "r2", "r3", "r4", "r5", "r6"}

ObjectId_is_valid(s) == s \in CanonicalIds \/ s = "Y"

ObjectIdStr(s) == IF s = "Y" THEN "y" ELSE s

\* _as_object_id on a request string or a stored reference: the id, or Null
as_object_id(val) ==
  IF val = Null THEN Null
  ELSE IF ObjectId_is_valid(val) THEN ObjectIdStr(val) ELSE Null

----------------------------------------------------------------------------
(* Sequence and dict helpers *)

Range(s) == {s[i] : i \in 1..Len(s)}

Reverse(s) == [i \in 1..Len(s) |-> s[Len(s) + 1 - i]]

\* all sequences over S of length at most n
BSeq(S, n) == UNION {[1..k -> S] : k \in 0..n}

\* d[k] = v
Put(d, k, v) == (k :> v) @@ d

\* d.get(k, dflt)
Get(d, k, dflt) == IF k \in DOMAIN d THEN d[k] ELSE dflt

\* d.setdefault(k, dflt)
SetDefault(d, k, dflt) == IF k \in DOMAIN d THEN d ELSE d @@ (k :> dflt)

EmptyDict == [k \in {} |-> Null]

\* ordered dict as a sequence of entries [k, v]
ODKeys(od) == [i \in 1..Len(od) |-> od[i].k]

ODHas(od, key) == \E i \in 1..Len(od) : od[i].k = key

ODGet(od, key) == od[CHOOSE i \in 1..Len(od) : od[i].k = key].v

\* od[key] = v : an existing key keeps its position
ODPut(od, key, v) ==
  IF ODHas(od, key)
  THEN [i \in 1..Len(od) |-> IF od[i].k = key THEN [k |-> key, v |-> v] ELSE od[i]]
  ELSE Append(od, [k |-> key, v |-> v])

\* (mutant) repeated elements are kept
keep_all(seq) == seq

\* _uniq
RECURSIVE UniqFrom(_, _, _)
UniqFrom(seq, i, out) ==
  IF i > Len(seq) THEN out
  ELSE UniqFrom(seq, i + 1,
                IF seq[i] \in Range(out) THEN out ELSE Append(out, seq[i]))

uniq(seq) == UniqFrom(seq, 1, <<>>)

\* (mutant) a last chunk shorter than size is not yielded
RECURSIVE ChunksFullOnly(_, _, _)
ChunksFullOnly(lst, size, i) ==
  IF i + size > Len(lst) THEN <<>>
  ELSE <<SubSeq(lst, i + 1, i + size)>> \o ChunksFullOnly(lst, size, i + size)

\* _chunks
RECURSIVE ChunksFrom(_, _, _)
ChunksFrom(lst, size, i) ==
  IF i >= Len(lst) THEN <<>>
  ELSE <<SubSeq(lst, i + 1, IF i + size < Len(lst) THEN i + size ELSE Len(lst))>>
       \o ChunksFrom(lst, size, i + size)

chunks(lst, size) == ChunksFrom(lst, size, 0)

\* datetime(year, month, day, hour, minute, second), naive (no tzinfo)
datetime(y, mo, d, h, mi, s) == <<y, mo, d, h, mi, s>>

\* dt.isoformat() of a naive datetime: the text "<date>T<time>", kept as its
\* two halves
isoformat(dt) == [date |-> SubSeq(dt, 1, 3), time |-> SubSeq(dt, 4, 6)]

\* _iso, and dt.isoformat() if dt else None, on an optional datetime
iso(dt) == IF dt = None THEN None ELSE Some(isoformat(dt[1]))

----------------------------------------------------------------------------
(* HTTP outcomes *)

Ok(body) == [status |-> 200, body |-> body]

HTTPException(code, detail) == [status |-> code, detail |-> detail]

NoResponse == [status |-> 0]

NoRequest == [endpoint |-> "none"]

----------------------------------------------------------------------------
(* Validation of request ids *)

\* the ObjectIds of ids, or the 400 raised at the first malformed one
ValidateEach(ids, what) ==
  LET bad == {i \in 1..Len(ids) : as_object_id(ids[i]) = Null}
      first == CHOOSE i \in bad : \A j \in bad : i <= j
  IN IF bad = {}
     THEN [ok |-> TRUE, oids |-> [i \in 1..Len(ids) |-> as_object_id(ids[i])]]
     ELSE [ok |-> FALSE, err |-> HTTPException(400, <<what, ids[first]>>)]

validate_object_ids(ids) ==
  IF Len(ids) > MAX_IDS
  THEN [ok |-> FALSE, err |-> HTTPException(400, <<"Too many ids (max)", MAX_IDS>>)]
  ELSE ValidateEach(ids, "Invalid ObjectId")

----------------------------------------------------------------------------
(* Analysis -> Deforestation -> period *)

\* Analysis.objects(id__in=oids), natural order
AnalysesByIds(s, oids) ==
  SelectSeq(s.analysis, LAMBDA a : a.id \in Range(oids))

\* Analysis.objects(deforestation_id__in=keys), natural order
AnalysesByDefo(s, keys) ==
  SelectSeq(s.analysis, LAMBDA a : a.deforestation_id \in keys)

\* Deforestation.objects(id__in=oids)
DefosByIds(s, oids) ==
  SelectSeq(s.deforestation, LAMBDA d : d.id \in oids)

\* Deforestation.objects(deforestation_type=t)
DefosByType(s, t) ==
  SelectSeq(s.deforestation, LAMBDA d : d.deforestation_type = t)

\* defo_periods[str(doc["_id"])] = (ps.isoformat() if ps else None, ...)
RECURSIVE PeriodsFrom(_, _, _)
PeriodsFrom(defos, i, out) ==
  IF i > Len(defos) THEN out
  ELSE PeriodsFrom(defos, i + 1,
         Put(out, defos[i].id,
             [ps |-> iso(defos[i].period_start), pe |-> iso(defos[i].period_end)]))

defo_periods_of(defos) == PeriodsFrom(defos, 1, EmptyDict)

\* analysis_to_defo[str(a.id)] = str(did), for the analyses that hold a reference
RECURSIVE AnalysisToDefoFrom(_, _, _)
AnalysisToDefoFrom(analyses, i, out) ==
  IF i > Len(analyses) THEN out
  ELSE LET did == as_object_id(analyses[i].deforestation_id)
       IN AnalysisToDefoFrom(analyses, i + 1,
            IF did # Null THEN ODPut(out, analyses[i].id, did) ELSE out)

analysis_to_defo_of(analyses) == AnalysisToDefoFrom(analyses, 1, <<>>)

Resolved(periods, a2d) == [ok |-> TRUE, defo_periods |-> periods, analysis_to_defo |-> a2d]

EmptyResolved == Resolved(EmptyDict, <<>>)

\* mode A: analysis_ids
PeriodsByAnalysisIds(s, payload) ==
  LET v == validate_object_ids(payload.analysis_ids)
      a2d == analysis_to_defo_of(AnalysesByIds(s, v.oids))
      defo_oids == {a2d[i].v : i \in 1..Len(a2d)}
  IN IF ~v.ok THEN v
     ELSE IF defo_oids = {} \/ a2d = <<>> THEN EmptyResolved
     ELSE Resolved(defo_periods_of(DefosByIds(s, defo_oids)), a2d)

\* modes B and C share the tail: the analyses of the deforestations found
PeriodsOfDefos(s, defos) ==
  LET periods == defo_periods_of(defos)
  IN IF DOMAIN periods = {} THEN EmptyResolved
     ELSE Resolved(periods, analysis_to_defo_of(AnalysesByDefo(s, DOMAIN periods)))

\* mode B: deforestation_ids
PeriodsByDeforestationIds(s, payload) ==
  LET v == validate_object_ids(payload.deforestation_ids)
  IN IF ~v.ok THEN v
     ELSE PeriodsOfDefos(s, DefosByIds(s, Range(v.oids)))

\* mode C: type
PeriodsByType(s, payload) ==
  IF payload.type = Null
  THEN [ok |-> FALSE,
        err |-> HTTPException(400, <<"Must provide either type OR analysis_ids OR deforestation_ids">>)]
  ELSE PeriodsOfDefos(s, DefosByType(s, payload.type))

\* (mutant) deforestation_ids are looked at before analysis_ids
get_periods_defo_first(s, payload) ==
  IF payload.deforestation_ids # <<>> THEN PeriodsByDeforestationIds(s, payload)
  ELSE IF payload.analysis_ids # <<>> THEN PeriodsByAnalysisIds(s, payload)
  ELSE PeriodsByType(s, payload)

\* an absent (None) id list and an empty one are both falsy: both are <<>>
get_periods_and_analyses(s, payload) ==
  IF payload.analysis_ids # <<>> THEN PeriodsByAnalysisIds(s, payload)
  ELSE IF payload.deforestation_ids # <<>> THEN PeriodsByDeforestationIds(s, payload)
  ELSE PeriodsByType(s, payload)

----------------------------------------------------------------------------
(* POST /risk/by-ids-and-type, shared pieces *)

\* periods of one analysis_to_defo entry: defo_periods.get(defo_id, (None, None))
PeriodOf(defo_periods, defo_id) == Get(defo_periods, defo_id, [ps |-> None, pe |-> None])

\* [ObjectId(aid) for aid in analysis_to_defo.keys()]
AnalysisOids(a2d) == {a2d[i].k : i \in 1..Len(a2d)}

\* one pass of the loop over valid_ids: the id's items are appended to its
\* bucket and the bucket's list is then reversed
ItemsPass(grouped, id, items) ==
  [grouped EXCEPT ![id].items = Reverse(@ \o items)]

\* _extract_sit_codes_from_farm_ext_id
extract_sit_codes(ext_id) ==
  LET sit == SelectSeq(ext_id, LAMBDA o : o.source = "SIT_CODE" /\ o.ext_code # Null)
  IN [i \in 1..Len(sit) |-> sit[i].ext_code]

\* {(str(doc[key_field]), str(doc["analysis_id"])): doc for doc in cursor}
RECURSIVE ExistingMapFrom(_, _, _, _)
ExistingMapFrom(cursor, key_field, i, out) ==
  IF i > Len(cursor) THEN out
  ELSE ExistingMapFrom(cursor, key_field, i + 1,
         Put(out, <<cursor[i][key_field], cursor[i].analysis_id>>, cursor[i]))

existing_map_of(cursor, key_field) == ExistingMapFrom(cursor, key_field, 1, EmptyDict)

----------------------------------------------------------------------------
(* entity_type = adm3 *)

\* Adm3.objects(id__in=valid_ids): one bucket per document found
RECURSIVE Adm3BaseFrom(_, _, _)
Adm3BaseFrom(docs, i, out) ==
  IF i > Len(docs) THEN out
  ELSE Adm3BaseFrom(docs, i + 1,
         Put(out, docs[i].id,
             [adm3_id |-> docs[i].id, name |-> docs[i].name, items |-> <<>>]))

Adm3Base(s, valid_ids) ==
  Adm3BaseFrom(SelectSeq(s.adm3, LAMBDA d : d.id \in Range(valid_ids)), 1, EmptyDict)

\* coll_ar.find({analysis_id: {$in: ...}, adm3_id: {$in: valid_ids}})
Adm3RiskCursor(s, a2d, valid_ids) ==
  SelectSeq(s.adm3risk,
            LAMBDA r : r.analysis_id \in AnalysisOids(a2d) /\ r.adm3_id \in Range(valid_ids))

\* Farm.objects(adm3_id__in=valid_ids), without the farms that lack an adm3
FarmsOfAdm3s(s, valid_ids) ==
  SelectSeq(s.farm,
            LAMBDA f : f.adm3_id \in Range(valid_ids) /\ as_object_id(f.adm3_id) # Null)

\* acc_x.setdefault(adm3_id, []).extend(sit_codes), when the row's flag is set
Extend(acc, flag, adm3_id, sit_codes) ==
  IF flag THEN Put(acc, adm3_id, Get(acc, adm3_id, <<>>) \o sit_codes) ELSE acc

RECURSIVE SitAccFrom(_, _, _, _, _)
SitAccFrom(fr_rows, i, farm_to_adm3, farm_to_sit, acc) ==
  IF i > Len(fr_rows) THEN acc
  ELSE LET r == fr_rows[i]
           fid == as_object_id(r.farm_id)
           adm3_id == Get(farm_to_adm3, fid, Null)
           sit_codes == Get(farm_to_sit, fid, <<>>)
           skip == fid = Null \/ adm3_id = Null \/ sit_codes = <<>>
       IN SitAccFrom(fr_rows, i + 1, farm_to_adm3, farm_to_sit,
            IF skip THEN acc
            ELSE [direct |-> Extend(acc.direct, r.risk_direct, adm3_id, sit_codes),
                  input  |-> Extend(acc.input, r.risk_input, adm3_id, sit_codes),
                  output |-> Extend(acc.output, r.risk_output, adm3_id, sit_codes)])

\* coll_fr.find({analysis_id: analysis_oid, farm_id: {$in: batch}})
FarmRiskBatch(s, analysis_oid, batch) ==
  SelectSeq(s.farmrisk,
            LAMBDA r : r.analysis_id = analysis_oid /\ r.farm_id \in Range(batch))

RECURSIVE SitBatchesFrom(_, _, _, _, _, _, _)
SitBatchesFrom(s, analysis_oid, batches, b, farm_to_adm3, farm_to_sit, acc) ==
  IF b > Len(batches) THEN acc
  ELSE SitBatchesFrom(s, analysis_oid, batches, b + 1, farm_to_adm3, farm_to_sit,
         SitAccFrom(FarmRiskBatch(s, analysis_oid, batches[b]), 1,
                    farm_to_adm3, farm_to_sit, acc))

build_adm3_sit_codes_for_analysis(s, analysis_oid, farm_ids, farm_to_adm3, farm_to_sit) ==
  LET acc == SitBatchesFrom(s, analysis_oid, chunks(farm_ids, FARMRISK_IN_BATCH), 1,
                            farm_to_adm3, farm_to_sit,
                            [direct |-> EmptyDict, input |-> EmptyDict, output |-> EmptyDict])
      all_adm3 == DOMAIN acc.direct \cup DOMAIN acc.input \cup DOMAIN acc.output
  IN [a \in all_adm3 |->
        [direct |-> uniq(Get(acc.direct, a, <<>>)),
         input  |-> uniq(Get(acc.input, a, <<>>)),
         output |-> uniq(Get(acc.output, a, <<>>))]]

NoSitCodes == [direct |-> <<>>, input |-> <<>>, output |-> <<>>]

\* (mutant) the Adm3Risk row is looked up by adm3 alone
Adm3ItemAnyAnalysis(defo_periods, existing_map, sit_cache, adm3_id, entry) ==
  LET p == PeriodOf(defo_periods, entry.v)
      keys == {k \in DOMAIN existing_map : k[1] = adm3_id}
      has == keys # {}
      doc == existing_map[CHOOSE k \in keys : TRUE]
  IN [period_start |-> p.ps,
      period_end   |-> p.pe,
      analysis_id  |-> entry.k,
      risk_total   |-> IF has THEN doc.risk_total ELSE FALSE,
      farm_amount  |-> IF has THEN doc.farm_amount ELSE 0,
      def_ha       |-> IF has THEN doc.def_ha ELSE 0,
      sit_codes    |-> Get(Get(sit_cache, entry.k, EmptyDict), adm3_id, NoSitCodes)]

\* the item of one (adm3, analysis) pair
Adm3Item(defo_periods, existing_map, sit_cache, adm3_id, entry) ==
  LET p == PeriodOf(defo_periods, entry.v)
      key == <<adm3_id, entry.k>>
      has == key \in DOMAIN existing_map
  IN [period_start |-> p.ps,
      period_end   |-> p.pe,
      analysis_id  |-> entry.k,
      risk_total   |-> IF has THEN existing_map[key].risk_total ELSE FALSE,
      farm_amount  |-> IF has THEN existing_map[key].farm_amount ELSE 0,
      def_ha       |-> IF has THEN existing_map[key].def_ha ELSE 0,
      sit_codes    |-> Get(Get(sit_cache, entry.k, EmptyDict), adm3_id, NoSitCodes)]

\* (mutant) no setdefault: an adm3 without a document gets no bucket
RECURSIVE Adm3LoopNoDefault(_, _, _, _)
Adm3LoopNoDefault(grouped, valid_ids, i, itemsOf) ==
  IF i > Len(valid_ids) THEN grouped
  ELSE Adm3LoopNoDefault(
         IF valid_ids[i] \in DOMAIN grouped
         THEN ItemsPass(grouped, valid_ids[i], itemsOf[valid_ids[i]])
         ELSE grouped,
         valid_ids, i + 1, itemsOf)

\* for adm3_oid in valid_ids: setdefault, append the items, reverse
RECURSIVE Adm3Loop(_, _, _, _)
Adm3Loop(grouped, valid_ids, i, itemsOf) ==
  IF i > Len(valid_ids) THEN grouped
  ELSE Adm3Loop(
         ItemsPass(SetDefault(grouped, valid_ids[i],
                              [adm3_id |-> valid_ids[i], items |-> <<>>]),
                   valid_ids[i], itemsOf[valid_ids[i]]),
         valid_ids, i + 1, itemsOf)

Adm3Branch(s, valid_ids, defo_periods, a2d) ==
  LET grouped == Adm3Base(s, valid_ids)
      existing_map == existing_map_of(Adm3RiskCursor(s, a2d, valid_ids), "adm3_id")
      farm_docs == FarmsOfAdm3s(s, valid_ids)
      farm_ids == [i \in 1..Len(farm_docs) |-> farm_docs[i].id]
      farm_to_adm3 == [f \in Range(farm_ids) |->
                         (CHOOSE d \in Range(farm_docs) : d.id = f).adm3_id]
      farm_to_sit == [f \in Range(farm_ids) |->
                         extract_sit_codes((CHOOSE d \in Range(farm_docs) : d.id = f).ext_id)]
      sit_cache == [a \in AnalysisOids(a2d) |->
                      build_adm3_sit_codes_for_analysis(s, a, farm_ids, farm_to_adm3, farm_to_sit)]
      itemsOf == [id \in Range(valid_ids) |->
                    [j \in 1..Len(a2d) |->
                       Adm3Item(defo_periods, existing_map, sit_cache, id, a2d[j])]]
  IN IF DOMAIN defo_periods = {} \/ a2d = <<>>
     THEN grouped
     ELSE Adm3Loop(grouped, valid_ids, 1, itemsOf)

----------------------------------------------------------------------------
(* entity_type = farm *)

\* _area: ha and prop of a stored measurement, zeros when it is not a dict
area(obj) ==
  IF obj = None THEN [ha |-> 0, prop |-> 0] ELSE [ha |-> obj[1].ha, prop |-> obj[1].prop]

\* farm_meta_map.get(str(fid)): the farm's metadata, None without a document
FarmMeta(s, fid) ==
  LET docs == SelectSeq(s.farm, LAMBDA f : f.id = fid)
  IN IF docs = <<>> THEN Null
     ELSE [farm_id |-> fid, adm3_id |-> as_object_id(docs[1].adm3_id),
           ext_id |-> docs[1].ext_id]

\* coll.find({analysis_id: {$in: ...}, farm_id: {$in: valid_ids}})
FarmRiskCursor(s, a2d, valid_ids) ==
  SelectSeq(s.farmrisk,
            LAMBDA r : r.analysis_id \in AnalysisOids(a2d) /\ r.farm_id \in Range(valid_ids))

FarmItem(defo_periods, existing_map, farm_id, entry) ==
  LET p == PeriodOf(defo_periods, entry.v)
      key == <<farm_id, entry.k>>
      has == key \in DOMAIN existing_map
  IN [period_start  |-> p.ps,
      period_end    |-> p.pe,
      analysis_id   |-> entry.k,
      risk_direct   |-> IF has THEN existing_map[key].risk_direct ELSE FALSE,
      risk_input    |-> IF has THEN existing_map[key].risk_input ELSE FALSE,
      risk_output   |-> IF has THEN existing_map[key].risk_output ELSE FALSE,
      deforestation |-> IF has THEN area(existing_map[key].deforestation) ELSE area(None)]

\* for oid in valid_ids: append the items, reverse (farm and enterprise)
RECURSIVE EntityLoop(_, _, _, _)
EntityLoop(grouped, valid_ids, i, itemsOf) ==
  IF i > Len(valid_ids) THEN grouped
  ELSE EntityLoop(ItemsPass(grouped, valid_ids[i], itemsOf[valid_ids[i]]),
                  valid_ids, i + 1, itemsOf)

FarmBranch(s, valid_ids, defo_periods, a2d) ==
  LET grouped == [fid \in Range(valid_ids) |->
                    [farm_id |-> fid, farm |-> FarmMeta(s, fid), items |-> <<>>]]
      existing_map == existing_map_of(FarmRiskCursor(s, a2d, valid_ids), "farm_id")
      itemsOf == [id \in Range(valid_ids) |->
                    [j \in 1..Len(a2d) |-> FarmItem(defo_periods, existing_map, id, a2d[j])]]
  IN IF DOMAIN defo_periods = {} \/ a2d = <<>>
     THEN grouped
     ELSE EntityLoop(grouped, valid_ids, 1, itemsOf)

----------------------------------------------------------------------------
(* entity_type = enterprise *)

EnterpriseMeta(s, eid) ==
  LET docs == SelectSeq(s.enterprise, LAMBDA e : e.id = eid)
  IN IF docs = <<>> THEN Null
     ELSE [enterprise_id |-> eid, name |-> docs[1].name]

\* coll_er.find({analysis_id: {$in: ...}, enterprise_id: {$in: valid_ids}})
EnterpriseRiskCursor(s, a2d, valid_ids) ==
  SelectSeq(s.enterpriserisk,
            LAMBDA r : r.analysis_id \in AnalysisOids(a2d)
                       /\ r.enterprise_id \in Range(valid_ids))

\* _to_oid_list on a stored list of FarmRisk references
to_oid_list(val) ==
  LET ok == SelectSeq(val, LAMBDA x : as_object_id(x) # Null)
  IN [i \in 1..Len(ok) |-> as_object_id(ok[i])]

\* the SIT codes of the farms behind a list of FarmRisk references
RECURSIVE CodesFrom(_, _, _, _, _)
CodesFrom(frids, i, fr_to_farm, farm_sit_map, out) ==
  IF i > Len(frids) THEN out
  ELSE LET farm_oid == Get(fr_to_farm, frids[i], Null)
       IN CodesFrom(frids, i + 1, fr_to_farm, farm_sit_map,
            IF farm_oid # Null THEN out \o Get(farm_sit_map, farm_oid, <<>>) ELSE out)

\* (mutant) the output codes are read from the input references
EnterpriseItemInputCodes(defo_periods, er_map, fr_to_farm, farm_sit_map, enterprise_id, entry) ==
  LET p == PeriodOf(defo_periods, entry.v)
      key == <<enterprise_id, entry.k>>
      has == key \in DOMAIN er_map
      in_codes == IF has
                  THEN CodesFrom(to_oid_list(er_map[key].risk_input), 1,
                                 fr_to_farm, farm_sit_map, <<>>)
                  ELSE <<>>
  IN [period_start |-> p.ps,
      period_end   |-> p.pe,
      analysis_id  |-> entry.k,
      risk_input   |-> IF has THEN Some(er_map[key].risk_input) ELSE None,
      risk_output  |-> IF has THEN Some(er_map[key].risk_output) ELSE None,
      sit_codes    |-> [input |-> uniq(in_codes), output |-> uniq(in_codes)]]

EnterpriseItem(defo_periods, er_map, fr_to_farm, farm_sit_map, enterprise_id, entry) ==
  LET p == PeriodOf(defo_periods, entry.v)
      key == <<enterprise_id, entry.k>>
      has == key \in DOMAIN er_map
      risk_in_raw == IF has THEN Some(er_map[key].risk_input) ELSE None
      risk_out_raw == IF has THEN Some(er_map[key].risk_output) ELSE None
      in_codes == IF has
                  THEN CodesFrom(to_oid_list(er_map[key].risk_input), 1,
                                 fr_to_farm, farm_sit_map, <<>>)
                  ELSE <<>>
      out_codes == IF has
                   THEN CodesFrom(to_oid_list(er_map[key].risk_output), 1,
                                  fr_to_farm, farm_sit_map, <<>>)
                   ELSE <<>>
  IN [period_start |-> p.ps,
      period_end   |-> p.pe,
      analysis_id  |-> entry.k,
      risk_input   |-> risk_in_raw,
      risk_output  |-> risk_out_raw,
      sit_codes    |-> [input |-> uniq(in_codes), output |-> uniq(out_codes)]]

EnterpriseBranch(s, valid_ids, defo_periods, a2d) ==
  LET grouped == [eid \in Range(valid_ids) |->
                    [enterprise_id |-> eid, enterprise |-> EnterpriseMeta(s, eid),
                     items |-> <<>>]]
      er_docs == EnterpriseRiskCursor(s, a2d, valid_ids)
      er_map == existing_map_of(er_docs, "enterprise_id")
      all_fr_oids == UNION {Range(to_oid_list(er_docs[i].risk_input))
                            \cup Range(to_oid_list(er_docs[i].risk_output))
                            : i \in 1..Len(er_docs)}
      fr_rows == SelectSeq(s.farmrisk,
                           LAMBDA r : r.id \in all_fr_oids /\ as_object_id(r.farm_id) # Null)
      fr_to_farm == [f \in {fr_rows[i].id : i \in 1..Len(fr_rows)} |->
                       (CHOOSE r \in Range(fr_rows) : r.id = f).farm_id]
      farm_ids == {fr_rows[i].farm_id : i \in 1..Len(fr_rows)}
      farm_docs2 == SelectSeq(s.farm, LAMBDA f : f.id \in farm_ids)
      farm_sit_map == [f \in {farm_docs2[i].id : i \in 1..Len(farm_docs2)} |->
                         extract_sit_codes((CHOOSE d \in Range(farm_docs2) : d.id = f).ext_id)]
      itemsOf == [id \in Range(valid_ids) |->
                    [j \in 1..Len(a2d) |->
                       EnterpriseItem(defo_periods, er_map, fr_to_farm, farm_sit_map,
                                      id, a2d[j])]]
  IN IF DOMAIN defo_periods = {} \/ a2d = <<>>
     THEN grouped
     ELSE EntityLoop(grouped, valid_ids, 1, itemsOf)

----------------------------------------------------------------------------
(* POST /risk/by-ids-and-type *)

get_risk_by_ids_and_type(s, payload) ==
  LET v == validate_object_ids(payload.ids)
      r == get_periods_and_analyses(s, payload)
  IN IF ~v.ok THEN v.err
     ELSE IF ~r.ok THEN r.err
     ELSE IF payload.entity_type = "adm3"
          THEN Ok(Adm3Branch(s, v.oids, r.defo_periods, r.analysis_to_defo))
     ELSE IF payload.entity_type = "farm"
          THEN Ok(FarmBranch(s, v.oids, r.defo_periods, r.analysis_to_defo))
     ELSE IF payload.entity_type = "enterprise"
          THEN Ok(EnterpriseBranch(s, v.oids, r.defo_periods, r.analysis_to_defo))
     ELSE HTTPException(400, <<"Invalid entity_type", payload.entity_type>>)

----------------------------------------------------------------------------
(* POST /adm3risk/by-analysis-and-adm3 *)

ZeroAcc == [risk_total |-> FALSE, farm_amount |-> 0, def_ha |-> 0]

\* 6.a: farm_amount and def_ha summed over the Adm3Risk rows of a pair
RECURSIVE AccAdm3RiskFrom(_, _, _)
AccAdm3RiskFrom(adm3risks, i, acc) ==
  IF i > Len(adm3risks) THEN acc
  ELSE LET r == adm3risks[i]
           key == <<r.analysis_id, r.adm3_id>>
           cur == Get(acc, key, ZeroAcc)
       IN AccAdm3RiskFrom(adm3risks, i + 1,
            Put(acc, key, [cur EXCEPT !.farm_amount = @ + r.farm_amount,
                                      !.def_ha = @ + r.def_ha]))

\* any_flag of one FarmRisk row
any_flag(fr) == fr.risk_direct \/ fr.risk_input \/ fr.risk_output

\* (mutant) every FarmRisk row adds its deforested hectares to def_ha
RECURSIVE AccFarmRiskAddsHa(_, _, _, _)
AccFarmRiskAddsHa(farmrisks, i, farm_to_adm3, acc) ==
  IF i > Len(farmrisks) THEN acc
  ELSE LET fr == farmrisks[i]
           adm3_id == Get(farm_to_adm3, fr.farm_id, Null)
           key == <<fr.analysis_id, adm3_id>>
           cur == Get(acc, key, ZeroAcc)
       IN AccFarmRiskAddsHa(farmrisks, i + 1, farm_to_adm3,
            IF adm3_id = Null THEN acc
            ELSE Put(acc, key, [cur EXCEPT !.risk_total = @ \/ any_flag(fr),
                                           !.def_ha = @ + area(fr.deforestation).ha]))

\* 6.b: risk_total is the OR of the flags of the FarmRisk rows of a pair
RECURSIVE AccFarmRiskFrom(_, _, _, _)
AccFarmRiskFrom(farmrisks, i, farm_to_adm3, acc) ==
  IF i > Len(farmrisks) THEN acc
  ELSE LET fr == farmrisks[i]
           adm3_id == Get(farm_to_adm3, fr.farm_id, Null)
           key == <<fr.analysis_id, adm3_id>>
           cur == Get(acc, key, ZeroAcc)
       IN AccFarmRiskFrom(farmrisks, i + 1, farm_to_adm3,
            IF adm3_id = Null THEN acc
            ELSE Put(acc, key, [cur EXCEPT !.risk_total = @ \/ any_flag(fr)]))

\* 7: the entry of one (analysis, adm3) pair
FilteredEntry(acc, period, analysis_id, adm3_id) ==
  LET vals == Get(acc, <<analysis_id, adm3_id>>, ZeroAcc)
  IN [analysis_id  |-> analysis_id,
      adm3_id      |-> adm3_id,
      period_start |-> period.ps,
      period_end   |-> period.pe,
      risk_total   |-> vals.risk_total,
      farm_amount  |-> vals.farm_amount,
      def_ha       |-> vals.def_ha]

\* (mutant) only the adm3 ids that have an accumulator get an entry
RECURSIVE FilteredLoopOnlyBuckets(_, _, _, _, _, _)
FilteredLoopOnlyBuckets(grouped, analyses, i, valid_adm3_ids, defo_periods, acc) ==
  IF i > Len(analyses) THEN grouped
  ELSE LET a == analyses[i]
           defo_id == as_object_id(a.deforestation_id)
           period == IF defo_id # Null THEN PeriodOf(defo_periods, defo_id)
                     ELSE [ps |-> None, pe |-> None]
           with == SelectSeq(valid_adm3_ids, LAMBDA x : <<a.id, x>> \in DOMAIN acc)
           entries == [j \in 1..Len(with) |-> FilteredEntry(acc, period, a.id, with[j])]
       IN FilteredLoopOnlyBuckets([grouped EXCEPT ![a.id] = @ \o entries],
                                  analyses, i + 1, valid_adm3_ids, defo_periods, acc)

RECURSIVE FilteredLoop(_, _, _, _, _, _)
FilteredLoop(grouped, analyses, i, valid_adm3_ids, defo_periods, acc) ==
  IF i > Len(analyses) THEN grouped
  ELSE LET a == analyses[i]
           defo_id == as_object_id(a.deforestation_id)
           period == IF defo_id # Null THEN PeriodOf(defo_periods, defo_id)
                     ELSE [ps |-> None, pe |-> None]
           entries == [j \in 1..Len(valid_adm3_ids) |->
                         FilteredEntry(acc, period, a.id, valid_adm3_ids[j])]
       IN FilteredLoop([grouped EXCEPT ![a.id] = @ \o entries],
                       analyses, i + 1, valid_adm3_ids, defo_periods, acc)

FilteredBody(s, valid_analysis_ids, valid_adm3_ids) ==
  LET analyses == AnalysesByIds(s, valid_analysis_ids)
      a2d == analysis_to_defo_of(analyses)
      defo_periods == defo_periods_of(DefosByIds(s, {a2d[i].v : i \in 1..Len(a2d)}))
      farms == FarmsOfAdm3s(s, valid_adm3_ids)
      farm_to_adm3 == [f \in {farms[i].id : i \in 1..Len(farms)} |->
                         (CHOOSE d \in Range(farms) : d.id = f).adm3_id]
      adm3risks == SelectSeq(s.adm3risk,
                     LAMBDA r : r.analysis_id \in Range(valid_analysis_ids)
                                /\ r.adm3_id \in Range(valid_adm3_ids))
      farmrisks == SelectSeq(s.farmrisk,
                     LAMBDA r : r.farm_id \in DOMAIN farm_to_adm3
                                /\ r.analysis_id \in Range(valid_analysis_ids))
      acc == AccFarmRiskFrom(farmrisks, 1, farm_to_adm3,
                             AccAdm3RiskFrom(adm3risks, 1, EmptyDict))
      grouped_results == [a \in Range(valid_analysis_ids) |-> <<>>]
  IN IF analyses = <<>>
     THEN grouped_results
     ELSE FilteredLoop(grouped_results, analyses, 1, valid_adm3_ids, defo_periods, acc)

get_adm3risk_filtered(s, data) ==
  LET va == ValidateEach(data.analysis_ids, "Invalid analysis_id")
      vx == ValidateEach(data.adm3_ids, "Invalid adm3_id")
  IN IF data.analysis_ids = <<>> \/ data.adm3_ids = <<>>
     THEN HTTPException(400, <<"analysis_ids y adm3_ids son requeridos">>)
     ELSE IF ~va.ok THEN va.err
     ELSE IF ~vx.ok THEN vx.err
     ELSE Ok(FilteredBody(s, va.oids, vx.oids))

----------------------------------------------------------------------------
(* The store *)

Adm3Docs == <<[id |-> "x", name |-> "La Zona"]>>

\* d3 is a legacy record: no explicit period, a year range instead
DeforestationDocs ==
  <<[id |-> "d1", deforestation_source |-> "smbyc", deforestation_type |-> "annual",
     name |-> Some(<<"a", "b">>),
     period_start |-> Some(datetime(2019, 1, 1, 0, 0, 0)),
     period_end |-> Some(datetime(2020, 12, 31, 23, 59, 59)),
     year_start |-> None, year_end |-> None],
    [id |-> "d2", deforestation_source |-> "smbyc", deforestation_type |-> "annual",
     name |-> Some(<<"B", ".">>),
     period_start |-> Some(datetime(2020, 1, 1, 0, 0, 0)),
     period_end |-> Some(datetime(2021, 12, 31, 23, 59, 59)),
     year_start |-> None, year_end |-> None],
    [id |-> "d3", deforestation_source |-> "smbyc", deforestation_type |-> "cumulative",
     name |-> Some(<<"a", "c">>),
     period_start |-> None, period_end |-> None,
     year_start |-> Some(2010), year_end |-> Some(2012)]>>

FarmDocs ==
  <<[id |-> "f1", adm3_id |-> "x",
     ext_id |-> <<[source |-> "SIT_CODE", ext_code |-> "S1"],
                  [source |-> "PRODUCTIONUNIT_ID", ext_code |-> "P1"]>>],
    [id |-> "f2", adm3_id |-> "y",
     ext_id |-> <<[source |-> "SIT_CODE", ext_code |-> "S2"]>>]>>

EnterpriseDocs == <<[id |-> "e1", name |-> "Planta"]>>

EnterpriseRiskDocs ==
  <<[enterprise_id |-> "e1", analysis_id |-> "a",
     risk_input |-> <<"r1">>, risk_output |-> <<"r2", "r1">>]>>

\* the analyses "a" and "b", in natural order, each with its reference
AnalysisStores ==
  {<<>>}
  \cup {<<[id |-> "a", deforestation_id |-> r]>> : r \in {"d1", "d2", "d3", Null}}
  \cup {<<[id |-> "a", deforestation_id |-> r], [id |-> "b", deforestation_id |-> q]>> :
          r \in {"d1", "d2"}, q \in {"d1", "d2"}}

Adm3RiskRows ==
  {[adm3_id |-> "x", analysis_id |-> "a", risk_total |-> FALSE, farm_amount |-> 2, def_ha |-> 5],
   [adm3_id |-> "x", analysis_id |-> "b", risk_total |-> TRUE, farm_amount |-> 1, def_ha |-> 3]}

FarmRiskRows ==
  {[farm_id |-> "f1", analysis_id |-> "a", risk_direct |-> FALSE, risk_input |-> TRUE,
    risk_output |-> FALSE, deforestation |-> Some([ha |-> 3, prop |-> 1])],
   [farm_id |-> "f1", analysis_id |-> "a", risk_direct |-> FALSE, risk_input |-> FALSE,
    risk_output |-> FALSE, deforestation |-> None],
   [farm_id |-> "f2", analysis_id |-> "a", risk_direct |-> TRUE, risk_input |-> FALSE,
    risk_output |-> TRUE, deforestation |-> Some([ha |-> 4, prop |-> 2])]}

FarmRiskIds == <<"r1", "r2", "r3", "r4", "r5", "r6">>

\* the FarmRisk documents of a row sequence: the i-th document's _id is FarmRiskIds[i]
WithIds(rows) ==
  [i \in 1..Len(rows) |->
     [id |-> FarmRiskIds[i], farm_id |-> rows[i].farm_id, analysis_id |-> rows[i].analysis_id,
      risk_direct |-> rows[i].risk_direct, risk_input |-> rows[i].risk_input,
      risk_output |-> rows[i].risk_output, deforestation |-> rows[i].deforestation]]

Store(analysis, adm3risk, farmrisk) ==
  [adm3 |-> Adm3Docs, deforestation |-> DeforestationDocs, analysis |-> analysis,
   farm |-> FarmDocs, farmrisk |-> WithIds(farmrisk), adm3risk |-> adm3risk,
   enterprise |-> EnterpriseDocs, enterpriserisk |-> EnterpriseRiskDocs]

Stores ==
  {Store(an, ar, fr) :
     an \in AnalysisStores,
     ar \in BSeq(Adm3RiskRows, MaxRows),
     fr \in BSeq(FarmRiskRows, MaxRows)}

----------------------------------------------------------------------------
(* Requests *)

LongIds == [i \in 1..(MAX_IDS + 1) |-> "x"]

EntityIdLists(entity_type) ==
  CASE entity_type = "adm3" -> BSeq({"x", "Y", "zz"}, MaxReqLen) \cup {LongIds}
    [] entity_type = "farm" -> BSeq({"f1", "f3"}, MaxReqLen)
    [] entity_type = "enterprise" -> BSeq({"e1", "e2"}, MaxReqLen)

\* the selectors that give one mode only (or none), and all their mixes
Selector(ty, an, de) == [type |-> ty, analysis_ids |-> an, deforestation_ids |-> de]

SingleSelectors ==
  {Selector(Null, <<>>, <<>>), Selector("annual", <<>>, <<>>),
   Selector("cumulative", <<>>, <<>>), Selector(Null, <<"b", "a">>, <<>>),
   Selector(Null, <<>>, <<"d1">>)}

MixedSelectors ==
  {Selector(ty, an, de) :
     ty \in {Null, "annual", "cumulative"},
     an \in {<<>>, <<"a">>, <<"b", "a">>, <<"zz">>},
     de \in {<<>>, <<"d1">>, <<"d2", "d1">>, <<"zz">>}}

GlobalRequest(e, ids, sel) ==
  [entity_type |-> e, ids |-> ids, type |-> sel.type, analysis_ids |-> sel.analysis_ids,
   deforestation_ids |-> sel.deforestation_ids]

GlobalRequests ==
  UNION {{GlobalRequest(e, ids, sel) : ids \in EntityIdLists(e), sel \in SingleSelectors} :
           e \in {"adm3", "farm", "enterprise"}}

SelectorRequests ==
  {GlobalRequest(e, <<"x">>, sel) : e \in {"adm3"}, sel \in MixedSelectors}

Adm3RiskFilterRequests ==
  {[analysis_ids |-> an, adm3_ids |-> ids] :
     an \in {<<>>, <<"a">>, <<"b", "a">>, <<"a", "c">>, <<"zz">>},
     ids \in EntityIdLists("adm3")}

----------------------------------------------------------------------------
(* Specification *)

Init ==
  /\ db \in Stores
  /\ Len(db.adm3risk) + Len(db.farmrisk) <= MaxRows
  /\ req = NoRequest
  /\ resp = NoResponse

RiskByIdsAndType ==
  /\ resp = NoResponse
  /\ \E payload \in GlobalRequests :
       /\ req' = [endpoint |-> "/risk/by-ids-and-type", payload |-> payload]
       /\ resp' = get_risk_by_ids_and_type(db, payload)
  /\ UNCHANGED db

Adm3RiskFiltered ==
  /\ resp = NoResponse
  /\ \E data \in Adm3RiskFilterRequests :
       /\ req' = [endpoint |-> "/adm3risk/by-analysis-and-adm3", payload |-> data]
       /\ resp' = get_adm3risk_filtered(db, data)
  /\ UNCHANGED db

\* the response is returned to the client; the process keeps no request state
Deliver ==
  /\ resp # NoResponse
  /\ req' = NoRequest
  /\ resp' = NoResponse
  /\ UNCHANGED db

Next == RiskByIdsAndType \/ Adm3RiskFiltered \/ Deliver

Spec == Init /\ [][Next]_vars

\* the same handler over every mix of selectors, for one requested adm3
RiskBySelector ==
  /\ resp = NoResponse
  /\ \E payload \in SelectorRequests :
       /\ req' = [endpoint |-> "/risk/by-ids-and-type", payload |-> payload]
       /\ resp' = get_risk_by_ids_and_type(db, payload)
  /\ UNCHANGED db

NextSelectors == RiskBySelector \/ Deliver

\* period resolution reads Analysis and Deforestation only
InitSelectors ==
  /\ db \in {Store(an, <<>>, <<>>) : an \in AnalysisStores}
  /\ req = NoRequest
  /\ resp = NoResponse

SpecSelectors == InitSelectors /\ [][NextSelectors]_vars

----------------------------------------------------------------------------
(* Vocabulary of the properties *)

GlobalEndpoint == "/risk/by-ids-and-type"
FilteredEndpoint == "/adm3risk/by-analysis-and-adm3"

IsGlobal == req.endpoint = GlobalEndpoint
IsGlobalOf(e) == IsGlobal /\ req.payload.entity_type = e
IsFiltered == req.endpoint = FilteredEndpoint

AllWellFormed(ids) == \A i \in 1..Len(ids) : ObjectId_is_valid(ids[i])
Requested(ids) == {ObjectIdStr(ids[i]) : i \in 1..Len(ids)}

\* the selector of a payload resolves to at least one deforestation and analysis
ResolvesSome(p) ==
  LET r == get_periods_and_analyses(db, p)
  IN r.ok /\ DOMAIN r.defo_periods # {} /\ r.analysis_to_defo # <<>>

\* the selector resolves, but to no deforestation or to no analysis
ResolvesNone(p) ==
  LET r == get_periods_and_analyses(db, p)
  IN r.ok /\ (DOMAIN r.defo_periods = {} \/ r.analysis_to_defo = <<>>)

Adm3RiskRowsOf(adm3_id, analysis_id) ==
  {i \in 1..Len(db.adm3risk) :
     db.adm3risk[i].adm3_id = adm3_id /\ db.adm3risk[i].analysis_id = analysis_id}

\* a FarmRisk row of the analysis, on a farm of the adm3, has a flag set
FlaggedFarmRisk(adm3_id, analysis_id) ==
  \E i \in 1..Len(db.farmrisk) :
    /\ db.farmrisk[i].analysis_id = analysis_id
    /\ \E j \in 1..Len(db.farm) :
         db.farm[j].id = db.farmrisk[i].farm_id /\ db.farm[j].adm3_id = adm3_id
    /\ (db.farmrisk[i].risk_direct \/ db.farmrisk[i].risk_input \/ db.farmrisk[i].risk_output)

\* the (adm3, analysis) entries of the response of either adm3 aggregation
Entry(adm3_id, analysis_id, e) ==
  [adm3_id |-> adm3_id, analysis_id |-> analysis_id, risk_total |-> e.risk_total,
   farm_amount |-> e.farm_amount, def_ha |-> e.def_ha]

EntriesOf(rq, rs) ==
  IF rs.status # 200 THEN {}
  ELSE IF rq.endpoint = GlobalEndpoint /\ rq.payload.entity_type = "adm3"
  THEN UNION {{Entry(k, rs.body[k].items[i].analysis_id, rs.body[k].items[i]) :
                 i \in 1..Len(rs.body[k].items)} : k \in DOMAIN rs.body}
  ELSE IF rq.endpoint = FilteredEndpoint
  THEN UNION {{Entry(rs.body[a][i].adm3_id, a, rs.body[a][i]) :
                 i \in 1..Len(rs.body[a])} : a \in DOMAIN rs.body}
  ELSE {}

Adm3Entries == EntriesOf(req, resp)

\* the response of the handler of rq over store s
Handle(s, rq) ==
  IF rq.endpoint = GlobalEndpoint THEN get_risk_by_ids_and_type(s, rq.payload)
  ELSE IF rq.endpoint = FilteredEndpoint THEN get_adm3risk_filtered(s, rq.payload)
  ELSE NoResponse

----------------------------------------------------------------------------
(* C1 *)

\* C1: POST /risk/by-ids-and-type with entity_type=adm3, well-formed ids and a
\* selector that resolves to at least one deforestation and analysis answers
\* 200 with exactly the requested adm3 ids as keys, and every item's
\* farm_amount and def_ha are >= 0.
C1_OneBucketPerAdm3 ==
  (/\ IsGlobalOf("adm3")
   /\ AllWellFormed(req.payload.ids) /\ Len(req.payload.ids) <= MAX_IDS
   /\ ResolvesSome(req.payload))
  => /\ resp.status = 200
     /\ DOMAIN resp.body = Requested(req.payload.ids)
     /\ \A k \in DOMAIN resp.body : \A i \in 1..Len(resp.body[k].items) :
          resp.body[k].items[i].farm_amount >= 0 /\ resp.body[k].items[i].def_ha >= 0

\* an adm3 without a document is requested beside one with Adm3Risk data
C1_Witness ==
  /\ IsGlobalOf("adm3") /\ ResolvesSome(req.payload)
  /\ resp.status = 200
  /\ Requested(req.payload.ids) = {"x", "y"}
  /\ \E i \in 1..Len(resp.body["x"].items) : resp.body["x"].items[i].farm_amount > 0
  /\ resp.body["y"].items # <<>>

----------------------------------------------------------------------------
(* C2 *)

\* C2: for each entity_type, when the selector resolves to no deforestation or
\* to no analysis, the answer is 200 with one key per requested id (also for
\* an id without a document), each with an empty items list.
C2_EmptyButWellFormed ==
  (/\ IsGlobal
   /\ AllWellFormed(req.payload.ids) /\ Len(req.payload.ids) <= MAX_IDS
   /\ ResolvesNone(req.payload))
  => /\ resp.status = 200
     /\ DOMAIN resp.body = Requested(req.payload.ids)
     /\ \A k \in DOMAIN resp.body : resp.body[k].items = <<>>

----------------------------------------------------------------------------
(* C3 *)

\* C3 as stated: every emitted (adm3, analysis) entry without an Adm3Risk row
\* has risk_total = false, farm_amount = 0 and def_ha = 0.
C3_ZeroWithoutRow ==
  \A e \in Adm3Entries :
    Adm3RiskRowsOf(e.adm3_id, e.analysis_id) = {}
    => e.risk_total = FALSE /\ e.farm_amount = 0 /\ e.def_ha = 0

\* C3: every emitted (adm3, analysis) entry without an Adm3Risk row has
\* farm_amount = 0 and def_ha = 0, and a boolean risk_total that is false
\* whenever no FarmRisk row of the analysis on a farm of the adm3 has a flag set.
C3_ZeroWithoutRowUnlessFlagged ==
  \A e \in Adm3Entries :
    Adm3RiskRowsOf(e.adm3_id, e.analysis_id) = {}
    => /\ e.farm_amount = 0 /\ e.def_ha = 0
       /\ e.risk_total \in BOOLEAN
       /\ (~FlaggedFarmRisk(e.adm3_id, e.analysis_id) => e.risk_total = FALSE)

\* a row-less, unflagged pair is emitted beside a pair that has a row
C3_Witness ==
  /\ IsFiltered
  /\ \E e \in Adm3Entries :
       /\ Adm3RiskRowsOf(e.adm3_id, e.analysis_id) = {}
       /\ ~FlaggedFarmRisk(e.adm3_id, e.analysis_id)
       /\ \E o \in Adm3Entries : o.adm3_id = e.adm3_id /\ o.farm_amount > 0

----------------------------------------------------------------------------
(* C4 *)

\* C4: POST /adm3risk/by-analysis-and-adm3 with well-formed non-empty id lists
\* answers 200 with one key per requested analysis id, and the list of every
\* requested analysis that exists holds one entry per requested adm3 id, in
\* request order, with or without an Adm3Risk row.
C4_OneEntryPerAdm3InOrder ==
  (/\ IsFiltered
   /\ req.payload.analysis_ids # <<>> /\ req.payload.adm3_ids # <<>>
   /\ AllWellFormed(req.payload.analysis_ids) /\ AllWellFormed(req.payload.adm3_ids))
  => /\ resp.status = 200
     /\ DOMAIN resp.body = Requested(req.payload.analysis_ids)
     /\ \A a \in DOMAIN resp.body :
          (\E i \in 1..Len(db.analysis) : db.analysis[i].id = a)
          => /\ Len(resp.body[a]) = Len(req.payload.adm3_ids)
             /\ \A j \in 1..Len(resp.body[a]) :
                  /\ resp.body[a][j].adm3_id = ObjectIdStr(req.payload.adm3_ids[j])
                  /\ resp.body[a][j].analysis_id = a

\* the scenario: analysis a, adm3 ids (y, x), only x has an Adm3Risk row
C4_Witness ==
  /\ IsFiltered /\ resp.status = 200
  /\ req.payload.adm3_ids = <<"Y", "x">>
  /\ "a" \in DOMAIN resp.body /\ Len(resp.body["a"]) = 2
  /\ Adm3RiskRowsOf("x", "a") # {} /\ Adm3RiskRowsOf("y", "a") = {}
  /\ resp.body["a"][2].farm_amount > 0

----------------------------------------------------------------------------
(* C5 *)

\* C5: in both adm3 aggregations risk_total of an (adm3, analysis) entry is
\* true exactly when a FarmRisk row of the analysis, on a farm of the adm3,
\* has risk_direct, risk_input or risk_output set; farm_amount and def_ha are
\* those of the pair's Adm3Risk row (zero without one).
C5_RiskTotalIsFarmRiskOr ==
  \A e \in Adm3Entries :
    LET rows == Adm3RiskRowsOf(e.adm3_id, e.analysis_id)
    IN /\ e.risk_total = FlaggedFarmRisk(e.adm3_id, e.analysis_id)
       /\ rows = {} => e.farm_amount = 0 /\ e.def_ha = 0
       /\ \A i \in rows :
            rows = {i} => /\ e.farm_amount = db.adm3risk[i].farm_amount
                          /\ e.def_ha = db.adm3risk[i].def_ha

----------------------------------------------------------------------------
(* C6 *)

WithSelector(p, ty, an, de) ==
  [p EXCEPT !.type = ty, !.analysis_ids = an, !.deforestation_ids = de]

\* C6: with analysis_ids given, the resolved periods and analysis map (and so
\* the response) are the same whatever deforestation_ids and type are; with
\* no analysis_ids and deforestation_ids given, the same whatever type is.
C6_SelectorPriority ==
  IsGlobal =>
    LET p == req.payload
    IN \A sel \in MixedSelectors :
         LET q == IF p.analysis_ids # <<>>
                  THEN WithSelector(p, sel.type, p.analysis_ids, sel.deforestation_ids)
                  ELSE WithSelector(p, sel.type, <<>>, p.deforestation_ids)
         IN (p.analysis_ids # <<>> \/ p.deforestation_ids # <<>>)
            => /\ get_periods_and_analyses(db, q) = get_periods_and_analyses(db, p)
               /\ get_risk_by_ids_and_type(db, q) = resp

\* all three selectors are given and analysis_ids decides: deforestation_ids
\* alone, and type alone, would each have resolved differently
C6_Witness ==
  /\ IsGlobal /\ resp.status = 200
  /\ req.payload.analysis_ids # <<>>
  /\ req.payload.deforestation_ids # <<>>
  /\ req.payload.type # Null
  /\ get_risk_by_ids_and_type(db, WithSelector(req.payload, Null, <<>>,
                                               req.payload.deforestation_ids)) # resp
  /\ get_risk_by_ids_and_type(db, WithSelector(req.payload, req.payload.type,
                                               <<>>, <<>>)) # resp

----------------------------------------------------------------------------
(* C7 *)

\* position of an analysis in analysis_to_defo: the order the items are inserted in
InsertionIndex(p, analysis_id) ==
  LET a2d == get_periods_and_analyses(db, p).analysis_to_defo
  IN CHOOSE i \in 1..Len(a2d) : a2d[i].k = analysis_id

\* order of two isoformat texts of the same layout: the order of the datetimes
RECURSIVE TupleLeq(_, _)
TupleLeq(s, u) ==
  IF s = <<>> THEN TRUE
  ELSE IF Head(s) # Head(u) THEN Head(s) < Head(u)
  ELSE TupleLeq(Tail(s), Tail(u))

IsoLeq(p, q) == TupleLeq(p.date \o p.time, q.date \o q.time)

\* C7: every items list of the POST /risk/by-ids-and-type response is ordered
\* by period_end descending, items of equal period_end in insertion order.
C7_NewestFirstStable ==
  (IsGlobal /\ resp.status = 200)
  => \A k \in DOMAIN resp.body :
       LET items == resp.body[k].items
       IN \A i, j \in 1..Len(items) :
            (i < j /\ items[i].period_end # None /\ items[j].period_end # None)
            => /\ IsoLeq(items[j].period_end[1], items[i].period_end[1])
               /\ items[i].period_end = items[j].period_end
                  => InsertionIndex(req.payload, items[i].analysis_id)
                     <= InsertionIndex(req.payload, items[j].analysis_id)

----------------------------------------------------------------------------
(* C8 *)

\* C8: a request that repeats an entity id returns for it the items list of
\* the request that lists the id once: one item per resolved analysis.
C8_RepeatedIdsAreDeduplicated ==
  (IsGlobal /\ resp.status = 200)
  => \A k \in DOMAIN resp.body :
       /\ resp.body[k].items =
            get_risk_by_ids_and_type(db, [req.payload EXCEPT !.ids = <<k>>]).body[k].items
       /\ ResolvesSome(req.payload)
          => Len(resp.body[k].items)
             = Len(get_periods_and_analyses(db, req.payload).analysis_to_defo)

----------------------------------------------------------------------------
(* C9 *)

Rejectable(ids) == ~AllWellFormed(ids) \/ Len(ids) > MAX_IDS

\* C9: a request of a risk aggregation endpoint that supplies an id list with
\* a malformed id, or with more than MAX_IDS ids, is rejected with a 400.
C9_BadIdListRejected ==
  /\ (IsGlobal /\ (\/ Rejectable(req.payload.ids)
                   \/ Rejectable(req.payload.analysis_ids)
                   \/ Rejectable(req.payload.deforestation_ids)))
     => resp.status = 400
  /\ (IsFiltered /\ (\/ Rejectable(req.payload.analysis_ids)
                     \/ Rejectable(req.payload.adm3_ids)))
     => resp.status = 400

----------------------------------------------------------------------------
(* C10 *)

\* the store with one FarmRisk row kept per (farm, analysis): the first
DedupFarmRisk(s) ==
  [s EXCEPT !.farmrisk =
     SelectSeq(s.farmrisk,
               LAMBDA r : \A i \in 1..Len(s.farmrisk) :
                 (s.farmrisk[i].farm_id = r.farm_id
                  /\ s.farmrisk[i].analysis_id = r.analysis_id)
                 => \A j \in 1..Len(s.farmrisk) : s.farmrisk[j] = r => j <= i)]

HasDuplicateFarmRisk ==
  \E i, j \in 1..Len(db.farmrisk) :
    /\ i < j
    /\ db.farmrisk[i].farm_id = db.farmrisk[j].farm_id
    /\ db.farmrisk[i].analysis_id = db.farmrisk[j].analysis_id

DefHaOf(entries) ==
  {[adm3_id |-> e.adm3_id, analysis_id |-> e.analysis_id, def_ha |-> e.def_ha] :
     e \in entries}

\* C10: the def_ha of every (adm3, analysis) entry is what it is over the store
\* that keeps one FarmRisk row per (farm, analysis): a farm's second row for
\* an analysis adds no hectares.
C10_DefHaCountsFarmOnce ==
  DefHaOf(Adm3Entries) = DefHaOf(EntriesOf(req, Handle(DedupFarmRisk(db), req)))

\* a farm of x has two FarmRisk rows for analysis a, and the (x, a) entry is emitted
C10_Witness ==
  /\ IsFiltered /\ HasDuplicateFarmRisk
  /\ \E e \in Adm3Entries :
       /\ \E i, j \in 1..Len(db.farmrisk) :
            /\ i < j
            /\ db.farmrisk[i].farm_id = db.farmrisk[j].farm_id
            /\ db.farmrisk[i].analysis_id = e.analysis_id
            /\ db.farmrisk[j].analysis_id = e.analysis_id
            /\ db.farmrisk[i].deforestation # None
            /\ \E f \in 1..Len(db.farm) :
                 db.farm[f].id = db.farmrisk[i].farm_id /\ db.farm[f].adm3_id = e.adm3_id
       /\ e.risk_total = TRUE

----------------------------------------------------------------------------
(* Deforestation serializer *)

\* _to_iso: dt.isoformat().replace("+00:00", "Z") if dt else None; the
\* datetimes of the store are naive, so their text has no offset to replace
to_iso(dt) == IF dt = None THEN None ELSE Some(isoformat(dt[1]))

serialize_deforestation(doc) ==
  LET period_start ==
        IF doc.period_start = None /\ doc.year_start # None
        THEN Some(datetime(doc.year_start[1], 1, 1, 0, 0, 0))
        ELSE doc.period_start
      period_end ==
        IF doc.period_end = None /\ doc.year_end # None
        THEN Some(datetime(doc.year_end[1], 12, 31, 23, 59, 59))
        ELSE doc.period_end
  IN [id |-> doc.id,
      deforestation_source |-> doc.deforestation_source,
      deforestation_type |-> doc.deforestation_type,
      name |-> doc.name,
      period_start |-> to_iso(period_start),
      period_end |-> to_iso(period_end)]

----------------------------------------------------------------------------
(* C11 *)

\* a record without explicit period that carries a year range
IsLegacy(d) ==
  d.period_start = None /\ d.period_end = None /\ d.year_start # None /\ d.year_end # None

\* the text of Ys-01-01T00:00:00 and of Ye-12-31T23:59:59
LegacyStart(d) == Some(isoformat(datetime(d.year_start[1], 1, 1, 0, 0, 0)))
LegacyEnd(d) == Some(isoformat(datetime(d.year_end[1], 12, 31, 23, 59, 59)))

\* the Deforestation documents the analysis refers to
DeforestationsOfAnalysis(analysis_id) ==
  {d \in Range(db.deforestation) :
     \E a \in Range(db.analysis) : a.id = analysis_id /\ a.deforestation_id = d.id}

\* C11: every item of a POST /risk/by-ids-and-type response whose analysis
\* refers to a legacy Deforestation (no explicit period, year_start=Ys and
\* year_end=Ye) reports the period Ys-01-01T00:00:00 to Ye-12-31T23:59:59.
C11_LegacyPeriodSynthesized ==
  (IsGlobal /\ resp.status = 200)
  => \A k \in DOMAIN resp.body : \A i \in 1..Len(resp.body[k].items) :
       \A d \in DeforestationsOfAnalysis(resp.body[k].items[i].analysis_id) :
         IsLegacy(d)
         => /\ resp.body[k].items[i].period_start = LegacyStart(d)
            /\ resp.body[k].items[i].period_end = LegacyEnd(d)

----------------------------------------------------------------------------
(* Adm3 labels: "DEP, MUN, VEREDA" *)

\* longest label text
MaxLabelLen == 5

\* a text is the sequence of its characters; an optional text is None or
\* Some(text), so that the empty text differs from None
LabelChars == {"A", "B", ",", " "}

Labels == {None} \cup {Some(s) : s \in BSeq(LabelChars, MaxLabelLen)}

\* str.split(","): never empty, the text without a comma is its only part
RECURSIVE SplitFrom(_, _, _, _)
SplitFrom(s, i, cur, out) ==
  IF i > Len(s) THEN Append(out, cur)
  ELSE IF s[i] = "," THEN SplitFrom(s, i + 1, <<>>, Append(out, cur))
  ELSE SplitFrom(s, i + 1, Append(cur, s[i]), out)

split(s) == SplitFrom(s, 1, <<>>, <<>>)

\* str.strip()
RECURSIVE lstrip(_)
lstrip(s) == IF s # <<>> /\ Head(s) = " " THEN lstrip(Tail(s)) ELSE s

RECURSIVE rstrip(_)
rstrip(s) ==
  IF s # <<>> /\ s[Len(s)] = " " THEN rstrip(SubSeq(s, 1, Len(s) - 1)) ELSE s

strip(s) == rstrip(lstrip(s))

\* parts[0], parts[1], parts[2] where present
FirstThree(parts) ==
  [k \in 1..3 |-> IF Len(parts) >= k THEN Some(parts[k]) ELSE None]

NoParts == [k \in 1..3 |-> None]

\* (mutant) the parts are not trimmed
split_label_untrimmed(label) ==
  IF label = None \/ label[1] = <<>> THEN NoParts
  ELSE FirstThree(split(label[1]))

\* _split_label_3: (department, municipality, vereda)
split_label_3(label) ==
  IF label = None \/ label[1] = <<>> THEN NoParts
  ELSE LET raw == split(label[1])
       IN FirstThree([i \in 1..Len(raw) |-> strip(raw[i])])

\* the adm3 enrichment of get_farmrisk_filtered: a label that is not a
\* non-blank text leaves the three fields None
farmrisk_label_parts(label) ==
  IF label # None /\ strip(label[1]) # <<>>
  THEN LET raw == split(label[1])
       IN FirstThree([i \in 1..Len(raw) |-> strip(raw[i])])
  ELSE NoParts

LabelsEndpoint == "split_label_3"
FarmRiskLabelsEndpoint == "/farmrisk/by-analysis-and-farm#label"

InitLabels ==
  /\ db = Store(<<>>, <<>>, <<>>)
  /\ req = NoRequest
  /\ resp = NoResponse

SplitLabel3 ==
  /\ resp = NoResponse
  /\ \E label \in Labels :
       /\ req' = [endpoint |-> LabelsEndpoint, label |-> label]
       /\ resp' = Ok(split_label_3(label))
  /\ UNCHANGED db

FarmRiskLabel ==
  /\ resp = NoResponse
  /\ \E label \in Labels :
       /\ req' = [endpoint |-> FarmRiskLabelsEndpoint, label |-> label]
       /\ resp' = Ok(farmrisk_label_parts(label))
  /\ UNCHANGED db

NextLabels == SplitLabel3 \/ FarmRiskLabel \/ Deliver

SpecLabels == InitLabels /\ [][NextLabels]_vars

----------------------------------------------------------------------------
(* C12 *)

IsLabelSplit == req.endpoint \in {LabelsEndpoint, FarmRiskLabelsEndpoint}

\* positions of the commas of a text, with the two ends as sentinels
CommaAt(s, n) ==
  LET commas == {i \in 1..Len(s) : s[i] = ","}
  IN IF n = 0 THEN 0
     ELSE IF n > Cardinality(commas) THEN Len(s) + 1
     ELSE CHOOSE i \in commas : Cardinality({j \in commas : j <= i}) = n

NumFields(s) == Cardinality({i \in 1..Len(s) : s[i] = ","}) + 1

\* the text between comma k-1 and comma k, without surrounding blanks
TrimmedField(s, k) ==
  LET lo == CommaAt(s, k - 1) + 1
      hi == CommaAt(s, k) - 1
      inked == {i \in lo..hi : s[i] # " "}
  IN IF inked = {} THEN <<>>
     ELSE SubSeq(s, CHOOSE i \in inked : \A j \in inked : i <= j,
                    CHOOSE i \in inked : \A j \in inked : i >= j)

Positional(s) ==
  [k \in 1..3 |-> IF k <= NumFields(s) THEN Some(TrimmedField(s, k)) ELSE None]

\* a label the implementation at hand treats as absent
TreatedAsAbsent(label) ==
  \/ label = None
  \/ label[1] = <<>>
  \/ req.endpoint = FarmRiskLabelsEndpoint /\ strip(label[1]) = <<>>

\* C12 (as stated): a null label gives (null, null, null); every other label
\* is split on commas, each part trimmed and assigned positionally, missing
\* parts null, parts beyond the third ignored.
C12_SplitLabel ==
  (IsLabelSplit /\ resp.status = 200)
  => resp.body = IF req.label = None THEN NoParts ELSE Positional(req.label[1])

\* C12 (amended): a null label, an empty label and, in the farm risk
\* endpoint, a blank label give (null, null, null); every other label is
\* split on commas, each part trimmed and assigned positionally, missing
\* parts null, parts beyond the third ignored.
C12_SplitLabelUnlessEmpty ==
  (IsLabelSplit /\ resp.status = 200)
  => resp.body = IF TreatedAsAbsent(req.label) THEN NoParts
                 ELSE Positional(req.label[1])

\* a label of four parts, the second one padded: the fourth is dropped
C12_Witness ==
  /\ IsLabelSplit /\ resp.status = 200
  /\ req.label = Some(<<"A", ",", " ", "B", ",">>)
  /\ resp.body = <<Some(<<"A">>), Some(<<"B">>), Some(<<>>)>>

----------------------------------------------------------------------------
(* Texts of query parameters *)

MAX_TERMS == 5
MAX_TERM_LENGTH == 25
MAX_COMBINATIONS == 50

\* s[:n]
Take(s, n) == SubSeq(s, 1, IF n < Len(s) THEN n ELSE Len(s))

\* n copies of a text
RECURSIVE Repeat(_, _)
Repeat(s, n) == IF n = 0 THEN <<>> ELSE s \o Repeat(s, n - 1)

\* ",".join(parts)
RECURSIVE Join(_)
Join(parts) ==
  IF parts = <<>> THEN <<>>
  ELSE IF Len(parts) = 1 THEN parts[1]
  ELSE parts[1] \o <<",">> \o Join(Tail(parts))

\* s.replace("-", "")
RemoveDashes(s) == SelectSeq(s, LAMBDA c : c # "-")

\* [p.strip() for p in s.split(",") if p.strip()]
StrippedParts(s) ==
  LET raw == split(s)
      stripped == [i \in 1..Len(raw) |-> strip(raw[i])]
  IN SelectSeq(stripped, LAMBDA q : q # <<>>)

\* field names, abbreviated: name, ext_id, deforestation_source, deforestation_type
T_name == <<"n", "a", "m", "e">>
T_ext_id == <<"e", "i">>
T_source == <<"s", "r", "c">>
T_type == <<"t", "y", "p">>

\* the text of an enum value
EnumText(v) ==
  CASE v = "annual" -> <<"a", "n">>
    [] v = "cumulative" -> <<"c", "u">>
    [] v = "smbyc" -> <<"s", "m">>

\* the value a document holds under a field name: Some(text), or None when
\* the document has no such field or holds no text there
FieldValue(doc, field) ==
  IF field = T_name /\ "name" \in DOMAIN doc THEN doc.name
  ELSE IF field = T_ext_id /\ "ext_id" \in DOMAIN doc THEN doc.ext_id
  ELSE IF field = T_source /\ "deforestation_source" \in DOMAIN doc
  THEN Some(EnumText(doc.deforestation_source))
  ELSE IF field = T_type /\ "deforestation_type" \in DOMAIN doc
  THEN Some(EnumText(doc.deforestation_type))
  ELSE None

----------------------------------------------------------------------------
(* build_search_query and its evaluation by the store *)

\* characters re.escape puts a backslash before
RegexSpecial == {".", "-", " "}

RECURSIVE re_escape(_)
re_escape(s) ==
  IF s = <<>> THEN <<>>
  ELSE (IF Head(s) \in RegexSpecial THEN <<"\\", Head(s)>> ELSE <<Head(s)>>)
       \o re_escape(Tail(s))

\* a pattern as the store reads it: "\c" is the character c, "." is any
\* character, every other character is itself
RECURSIVE RegexTokens(_)
RegexTokens(pat) ==
  IF pat = <<>> THEN <<>>
  ELSE IF Head(pat) = "\\" /\ Len(pat) >= 2
  THEN <<[any |-> FALSE, ch |-> pat[2]]>> \o RegexTokens(SubSeq(pat, 3, Len(pat)))
  ELSE IF Head(pat) = "."
  THEN <<[any |-> TRUE, ch |-> "."]>> \o RegexTokens(Tail(pat))
  ELSE <<[any |-> FALSE, ch |-> Head(pat)]>> \o RegexTokens(Tail(pat))

\* "$options": "i", and collation strength 1: letter case is ignored
Lower(c) ==
  CASE c = "A" -> "a"
    [] c = "B" -> "b"
    [] c = "C" -> "c"
    [] OTHER -> c

\* {"$regex": pat, "$options": "i"} on a text
RegexSearch(pat, text) ==
  LET toks == RegexTokens(pat)
  IN \E start \in 0..(Len(text) - Len(toks)) :
       \A i \in 1..Len(toks) :
         toks[i].any \/ Lower(toks[i].ch) = Lower(text[start + i])

build_search_query(terms, fields) ==
  LET kept == SelectSeq([i \in 1..Len(terms) |-> strip(terms[i])], LAMBDA q : q # <<>>)
      safe_terms == [i \in 1..Len(kept) |-> re_escape(kept[i])]
  IN [or |-> [n \in 1..(Len(safe_terms) * Len(fields)) |->
                [field |-> fields[((n - 1) % Len(fields)) + 1],
                 regex |-> safe_terms[((n - 1) \div Len(fields)) + 1]]]]

\* the documents of a collection a raw query selects, in natural order
Matching(docs, query) ==
  SelectSeq(docs, LAMBDA d :
    \E n \in 1..Len(query.or) :
      /\ FieldValue(d, query.or[n].field) # None
      /\ RegexSearch(query.or[n].regex, FieldValue(d, query.or[n].field)[1]))

\* a query set: the collection with the raw query put on it, if any
QuerySet(docs, query) == [docs |-> docs, query |-> query]

\* the store rejects an empty $or array when the query is executed
QueryFails(qs) == qs.query # None /\ qs.query[1].or = <<>>

Execute(qs) == IF qs.query = None THEN qs.docs ELSE Matching(qs.docs, qs.query[1])

----------------------------------------------------------------------------
(* order_by *)

CharOrder == <<" ", ".", "a", "b", "c", "m", "n", "s", "u">>

Rank(c) == CHOOSE i \in 1..Len(CharOrder) : CharOrder[i] = Lower(c)

\* -1, 0, 1: order of two optional texts, a missing one first
RECURSIVE TextCmp(_, _)
TextCmp(s, u) ==
  IF s = <<>> /\ u = <<>> THEN 0
  ELSE IF s = <<>> THEN 0 - 1
  ELSE IF u = <<>> THEN 1
  ELSE IF Rank(Head(s)) < Rank(Head(u)) THEN 0 - 1
  ELSE IF Rank(Head(s)) > Rank(Head(u)) THEN 1
  ELSE TextCmp(Tail(s), Tail(u))

ValueCmp(v, w) ==
  IF v = None /\ w = None THEN 0
  ELSE IF v = None THEN 0 - 1
  ELSE IF w = None THEN 1
  ELSE TextCmp(v[1], w[1])

\* order of two documents under the sort keys: "-f" is f descending
RECURSIVE DocCmp(_, _, _)
DocCmp(d, e, keys) ==
  IF keys = <<>> THEN 0
  ELSE LET key == Head(keys)
           desc == key # <<>> /\ Head(key) = "-"
           field == IF desc THEN Tail(key) ELSE key
           c == ValueCmp(FieldValue(d, field), FieldValue(e, field))
       IN IF c = 0 THEN DocCmp(d, e, Tail(keys))
          ELSE IF desc THEN 0 - c ELSE c

\* documents that compare equal keep their natural order
RECURSIVE InsertSorted(_, _, _)
InsertSorted(sorted, d, keys) ==
  IF sorted = <<>> THEN <<d>>
  ELSE IF DocCmp(sorted[Len(sorted)], d, keys) <= 0 THEN Append(sorted, d)
  ELSE Append(InsertSorted(SubSeq(sorted, 1, Len(sorted) - 1), d, keys),
              sorted[Len(sorted)])

RECURSIVE OrderByFrom(_, _, _, _)
OrderByFrom(docs, keys, i, out) ==
  IF i > Len(docs) THEN out
  ELSE OrderByFrom(docs, keys, i + 1, InsertSorted(out, docs[i], keys))

order_by_docs(docs, keys) == OrderByFrom(docs, keys, 1, <<>>)

----------------------------------------------------------------------------
(* Paged endpoints *)

\* serialize_adm3; adm2 is the dereferenced adm2_id, if the document has one
serialize_adm3(doc) ==
  [id |-> doc.id,
   ext_id |-> doc.ext_id,
   name |-> doc.name,
   adm2_id |-> IF doc.adm2 # None THEN Some(doc.adm2[1].id) ELSE None,
   adm2_name |-> IF doc.adm2 # None THEN Some(doc.adm2[1].name) ELSE None,
   label |-> doc.label]

\* serialize_fn(obj), by the collection the router serves
Serialize(collection, obj) ==
  IF collection = "deforestation" THEN serialize_deforestation(obj)
  ELSE serialize_adm3(obj)

\* an exception no handler catches: the framework answers 500
Unhandled == [status |-> 500, detail |-> <<"Internal Server Error">>]

\* what a paged handler handed to the store: the raw search query, if any,
\* and the sort fields
StoreCall(qs, sort_fields) == [query |-> qs.query, order_by |-> sort_fields]

\* (mutant) page is used although skip is given
page_offset_ignoring_skip(page, limit, skip) == (page - 1) * limit

\* offset = skip if skip is not None else (page - 1) * limit
page_offset(page, limit, skip) == IF skip # None THEN skip[1] ELSE (page - 1) * limit

\* (mutant) a last, partly filled page is not counted
total_pages_floor(total, limit) == total \div limit

\* total_pages = (total + limit - 1) // limit
total_pages_of(total, limit) == (total + limit - 1) \div limit

build_paginated_response(qs, collection, page, limit, skip, order_by_fields) ==
  IF QueryFails(qs) THEN Unhandled
  ELSE
    LET total == Len(Execute(qs))
        offset == page_offset(page, limit, skip)
        total_pages == total_pages_of(total, limit)
        has_next == (offset + limit) < total
        real_page == IF skip = None THEN page ELSE (offset \div limit) + 1
        sorted == IF order_by_fields # <<>>
                  THEN order_by_docs(Execute(qs), order_by_fields) ELSE Execute(qs)
        last == IF offset + limit < total THEN offset + limit ELSE total
        results == SubSeq(sorted, offset + 1, last)
    IN [status |-> 200,
        body |-> [total |-> total, limit |-> limit, skip |-> offset, page |-> real_page,
                  total_pages |-> total_pages, has_next |-> has_next,
                  results |-> [i \in 1..Len(results) |-> Serialize(collection, results[i])]],
        store |-> StoreCall(qs, order_by_fields)]

\* an absent (None) text parameter and an empty one are both falsy
Falsy(param) == param = None \/ param[1] = <<>>

\* allowed_fields of the /deforestation router
DeforestationAllowedFields == <<T_source, T_type, T_name>>

\* the sort fields of get_paginated, or the first field outside the whitelist
SortFieldsOf(order_by, allowed_fields) ==
  LET raw == IF Falsy(order_by) THEN <<>> ELSE split(order_by[1])
      bad == {i \in 1..Len(raw) : RemoveDashes(strip(raw[i])) \notin Range(allowed_fields)}
  IN IF bad = {}
     THEN [ok |-> TRUE, sort_fields |-> [i \in 1..Len(raw) |-> strip(raw[i])]]
     ELSE [ok |-> FALSE,
           err |-> HTTPException(400,
                     <<"Invalid sort field", RemoveDashes(strip(raw[CHOOSE i \in bad : \A j \in bad : i <= j]))>>)]

\* generate_read_only_router(...).get_paginated over a collection
get_paginated(docs, collection, allowed_fields, q) ==
  LET named == IF Falsy(q.search_fields) THEN Join(allowed_fields) ELSE q.search_fields[1]
      parts == split(named)
      fields == SelectSeq([i \in 1..Len(parts) |-> strip(parts[i])],
                          LAMBDA f : f \in Range(allowed_fields))
      searching == ~Falsy(q.search) /\ fields # <<>>
      found == StrippedParts(q.search[1])
      terms == Take([i \in 1..Len(found) |-> Take(found[i], MAX_TERM_LENGTH)], MAX_TERMS)
      qs == IF searching THEN QuerySet(docs, Some(build_search_query(terms, fields)))
            ELSE QuerySet(docs, None)
      sort == SortFieldsOf(q.order_by, allowed_fields)
  IN IF searching /\ Len(terms) * Len(fields) > MAX_COMBINATIONS
     THEN HTTPException(400, <<"Search is too broad. Reduce number of terms or fields.">>)
     ELSE IF ~sort.ok THEN sort.err
     ELSE build_paginated_response(qs, collection, q.page, q.limit, q.skip, sort.sort_fields)

\* allowed_fields of get_adm3_paginated
Adm3AllowedFields == <<T_name, T_ext_id>>

\* GET /adm3/paged/
get_adm3_paginated(docs, q) ==
  LET given == IF Falsy(q.search_fields) THEN <<>> ELSE StrippedParts(q.search_fields[1])
      invalid_search == SelectSeq(given, LAMBDA f : f \notin Range(Adm3AllowedFields))
      fields == IF Falsy(q.search_fields) THEN Adm3AllowedFields ELSE given
      raw == IF Falsy(q.order_by) THEN <<>> ELSE split(q.order_by[1])
      stripped == [i \in 1..Len(raw) |-> strip(raw[i])]
      sort_fields == SelectSeq(stripped, LAMBDA f : RemoveDashes(f) \in Range(Adm3AllowedFields))
      invalid_fields == SelectSeq(stripped, LAMBDA f : RemoveDashes(f) \notin Range(Adm3AllowedFields))
      searching == ~Falsy(q.search) /\ fields # <<>>
      qs == IF searching
            THEN QuerySet(docs, Some(build_search_query(StrippedParts(q.search[1]), fields)))
            ELSE QuerySet(docs, None)
  IN IF invalid_search # <<>>
     THEN HTTPException(400, <<"Invalid search fields", invalid_search>>)
     ELSE IF invalid_fields # <<>>
     THEN HTTPException(400, <<"Invalid sort fields", invalid_fields>>)
     ELSE build_paginated_response(qs, "adm3", q.page, q.limit, q.skip, sort_fields)

----------------------------------------------------------------------------
(* Paged requests *)

\* largest page, limit and skip of a generated request
MaxPage == 3
MaxLimit == 3
MaxSkip == 3
\* documents in a paged collection
MaxDocs == 3

Adm3PagedDocs ==
  <<[id |-> "x", ext_id |-> Some(<<"b">>), name |-> Some(<<"a", " ", "b">>),
     adm2 |-> None, label |-> Some(<<"c", ",", "b", ",", "a">>)],
    [id |-> "y", ext_id |-> Some(<<"a">>), name |-> Some(<<"B">>),
     adm2 |-> Some([id |-> "c", name |-> <<"b">>]), label |-> None],
    [id |-> "a", ext_id |-> None, name |-> Some(<<"a", "c">>),
     adm2 |-> None, label |-> None]>>

Prefix(seq, n) == SubSeq(seq, 1, IF n < Len(seq) THEN n ELSE Len(seq))

\* the store with the first n Deforestation and Adm3 documents
PagedStore(n) ==
  [Store(<<>>, <<>>, <<>>) EXCEPT !.deforestation = Prefix(DeforestationDocs, n),
                                  !.adm3 = Prefix(Adm3PagedDocs, n)]

PagedQuery(page, limit, skip, search, search_fields, order_by) ==
  [page |-> page, limit |-> limit, skip |-> skip, search |-> search,
   search_fields |-> search_fields, order_by |-> order_by]

Skips == {None} \cup {Some(k) : k \in 0..MaxSkip}

T_a == <<"a">>

Searches ==
  {None, Some(T_a), Some(<<"a", ",", " ", "b">>), Some(<<".">>), Some(<<",", " ">>),
   Some(Join([i \in 1..(MAX_TERMS + 1) |-> T_a])),
   Some(Repeat(T_a, MAX_TERM_LENGTH + 1))}

SearchFields ==
  {None, Some(T_name), Some(<<"z">>),
   Some(Join([i \in 1..((MAX_COMBINATIONS \div MAX_TERMS) + 1) |-> T_name]))}

OrderBys ==
  {None, Some(T_name), Some(<<"-">> \o T_name), Some(<<" ">> \o T_name \o <<",", "-">> \o T_type),
   Some(T_name \o <<",", "-">> \o T_ext_id),
   Some(<<"-", "-">> \o T_name), Some(<<"n", "a", "-", "m", "e">>), Some(<<"z">>),
   Some(T_name \o <<",", "z">>)}

\* every page, limit and skip, with and without a search and an order
PageRequests ==
  {PagedQuery(p, l, k, s, None, o) :
     p \in 1..MaxPage, l \in 1..MaxLimit, k \in Skips,
     s \in {None, Some(T_a)}, o \in {None, Some(<<"-">> \o T_name)}}

\* every search and order, on the first page
SearchRequests ==
  {PagedQuery(1, MaxLimit, None, s, f, o) :
     s \in Searches, f \in SearchFields, o \in OrderBys}

PagedRequests == PageRequests \cup SearchRequests

DeforestationPagedEndpoint == "/deforestation/paged/"
Adm3PagedEndpoint == "/adm3/paged/"

InitPaged ==
  /\ db \in {PagedStore(n) : n \in 0..MaxDocs}
  /\ req = NoRequest
  /\ resp = NoResponse

DeforestationPaged ==
  /\ resp = NoResponse
  /\ \E q \in PagedRequests :
       /\ req' = [endpoint |-> DeforestationPagedEndpoint, query |-> q]
       /\ resp' = get_paginated(db.deforestation, "deforestation",
                                DeforestationAllowedFields, q)
  /\ UNCHANGED db

Adm3Paged ==
  /\ resp = NoResponse
  /\ \E q \in PagedRequests :
       /\ req' = [endpoint |-> Adm3PagedEndpoint, query |-> q]
       /\ resp' = get_adm3_paginated(db.adm3, q)
  /\ UNCHANGED db

NextPaged == DeforestationPaged \/ Adm3Paged \/ Deliver

SpecPaged == InitPaged /\ [][NextPaged]_vars

----------------------------------------------------------------------------
(* C13 *)

IsPaged == req.endpoint \in {DeforestationPagedEndpoint, Adm3PagedEndpoint}

PagedCollection ==
  IF req.endpoint = DeforestationPagedEndpoint THEN db.deforestation ELSE db.adm3

\* the records the query of the answered request matches
MatchedRecords == Execute(QuerySet(PagedCollection, resp.store.query))

Ceil(t, l) == CHOOSE n \in 0..t : n * l >= t /\ (n - 1) * l < t

Min(m, n) == IF m < n THEN m ELSE n
Max(m, n) == IF m > n THEN m ELSE n

\* C13: a paged request of page p and limit L without skip, over a query
\* matching T records, reports total=T, skip=(p-1)*L, page=p,
\* total_pages=ceil(T/L), has_next exactly when p*L < T, and returns
\* min(L, max(0, T-(p-1)*L)) results.
C13_PageArithmetic ==
  (IsPaged /\ resp.status = 200 /\ req.query.skip = None)
  => LET p == req.query.page
         L == req.query.limit
         T == Len(MatchedRecords)
     IN /\ resp.body.total = T
        /\ resp.body.skip = (p - 1) * L
        /\ resp.body.page = p
        /\ resp.body.total_pages = Ceil(T, L)
        /\ resp.body.has_next <=> (p * L < T)
        /\ Len(resp.body.results) = Min(L, Max(0, T - (p - 1) * L))

\* the second of three pages, and a page past the last one
C13_Witness ==
  /\ IsPaged /\ resp.status = 200 /\ req.query.skip = None
  /\ req.query.page = 2 /\ req.query.limit = 1
  /\ resp.body.total = 3 /\ resp.body.total_pages = 3
  /\ resp.body.has_next /\ Len(resp.body.results) = 1

----------------------------------------------------------------------------
(* C14 *)

\* C14: when skip is given the returned slice starts at offset skip whatever
\* page is, the reported skip is the given skip and the reported page is
\* floor(skip/limit)+1.
C14_SkipOverridesPage ==
  (IsPaged /\ resp.status = 200 /\ req.query.skip # None)
  => LET k == req.query.skip[1]
         L == req.query.limit
         ordered == IF resp.store.order_by = <<>> THEN MatchedRecords
                    ELSE order_by_docs(MatchedRecords, resp.store.order_by)
         slice == SubSeq(ordered, k + 1, Min(k + L, Len(ordered)))
     IN /\ resp.body.skip = k
        /\ resp.body.page = (k \div L) + 1
        /\ Len(resp.body.results) = Len(slice)
        /\ \A i \in 1..Len(slice) : resp.body.results[i].id = slice[i].id

\* skip and page disagree: page 3 is asked for, the slice starts at record 2
C14_Witness ==
  /\ IsPaged /\ resp.status = 200
  /\ req.query.skip = Some(1) /\ req.query.page = 3 /\ req.query.limit = 2
  /\ resp.body.total = 3
  /\ Len(resp.body.results) = 2 /\ resp.body.page = 1

----------------------------------------------------------------------------
(* C15 *)

\* the SIT_CODE external codes of a farm document
SitCodesOfFarm(f) ==
  {f.ext_id[i].ext_code : i \in {j \in 1..Len(f.ext_id) :
                                   f.ext_id[j].source = "SIT_CODE" /\ f.ext_id[j].ext_code # Null}}

\* the SIT codes of the farms of the adm3 that have a FarmRisk row of the
\* analysis with the flag set
FlaggedSitCodes(adm3_id, analysis_id, flag) ==
  UNION {SitCodesOfFarm(f) :
           f \in {g \in Range(db.farm) :
                    /\ g.adm3_id = adm3_id
                    /\ \E r \in Range(db.farmrisk) :
                         r.farm_id = g.id /\ r.analysis_id = analysis_id /\ r[flag]}}

NoRepeats(seq) == Cardinality(Range(seq)) = Len(seq)

\* C15: in every item of an adm3 response of POST /risk/by-ids-and-type,
\* sit_codes.direct (input, output) holds exactly the SIT codes of the farms
\* of that adm3 with a FarmRisk row of that analysis whose risk_direct
\* (risk_input, risk_output) is true, each code once.
C15_SitCodesOfFlaggedFarms ==
  (IsGlobalOf("adm3") /\ resp.status = 200)
  => \A k \in DOMAIN resp.body : \A i \in 1..Len(resp.body[k].items) :
       LET item == resp.body[k].items[i]
       IN /\ Range(item.sit_codes.direct) = FlaggedSitCodes(k, item.analysis_id, "risk_direct")
          /\ Range(item.sit_codes.input) = FlaggedSitCodes(k, item.analysis_id, "risk_input")
          /\ Range(item.sit_codes.output) = FlaggedSitCodes(k, item.analysis_id, "risk_output")
          /\ NoRepeats(item.sit_codes.direct)
          /\ NoRepeats(item.sit_codes.input)
          /\ NoRepeats(item.sit_codes.output)

\* two FarmRisk rows of one analysis flag the same farm: its code is listed once
C15_Witness ==
  /\ IsGlobalOf("adm3") /\ resp.status = 200
  /\ \E i, j \in 1..Len(db.farmrisk) :
       /\ i < j
       /\ db.farmrisk[i].farm_id = "f1" /\ db.farmrisk[j].farm_id = "f1"
       /\ db.farmrisk[i].risk_input /\ db.farmrisk[j].risk_input
  /\ "x" \in DOMAIN resp.body
  /\ \E i \in 1..Len(resp.body["x"].items) :
       resp.body["x"].items[i].sit_codes.input = <<"S1">>

----------------------------------------------------------------------------
(* C16 *)

\* the SIT codes of the farms that own the FarmRisk rows of a reference list
SitCodesBehind(refs) ==
  UNION {SitCodesOfFarm(f) :
           f \in {g \in Range(db.farm) :
                    \E r \in Range(db.farmrisk) : r.id \in Range(refs) /\ r.farm_id = g.id}}

EnterpriseRiskOf(enterprise_id, analysis_id) ==
  {er \in Range(db.enterpriserisk) :
     er.enterprise_id = enterprise_id /\ er.analysis_id = analysis_id}

\* C16: in every item of an enterprise response of POST /risk/by-ids-and-type
\* the risk_input and risk_output lists are those of the EnterpriseRisk row
\* of the (enterprise, analysis) pair, and sit_codes.input / sit_codes.output
\* hold exactly the SIT codes of the farms owning those FarmRisk rows, each
\* code once.
C16_EnterpriseSitCodes ==
  (IsGlobalOf("enterprise") /\ resp.status = 200)
  => \A k \in DOMAIN resp.body : \A i \in 1..Len(resp.body[k].items) :
       LET item == resp.body[k].items[i]
       IN /\ NoRepeats(item.sit_codes.input) /\ NoRepeats(item.sit_codes.output)
          /\ \A er \in EnterpriseRiskOf(k, item.analysis_id) :
               /\ item.risk_input = Some(er.risk_input)
               /\ item.risk_output = Some(er.risk_output)
               /\ Range(item.sit_codes.input) = SitCodesBehind(er.risk_input)
               /\ Range(item.sit_codes.output) = SitCodesBehind(er.risk_output)

\* the output side refers to two FarmRisk rows of farms with different codes,
\* the input side to one of them
C16_Witness ==
  /\ IsGlobalOf("enterprise") /\ resp.status = 200
  /\ "e1" \in DOMAIN resp.body
  /\ \E i \in 1..Len(resp.body["e1"].items) :
       /\ resp.body["e1"].items[i].analysis_id = "a"
       /\ resp.body["e1"].items[i].sit_codes.input = <<"S1">>
       /\ resp.body["e1"].items[i].sit_codes.output = <<"S2", "S1">>

----------------------------------------------------------------------------
(* Unexpected exceptions in the aggregation handlers *)

\* str(e) of the exception a lookup or a fold step raises
Exceptions == {"ServerSelectionTimeoutError: localhost:27017", "KeyError: 'risk_total'"}

\* get_risk_by_ids_and_type when a store lookup or a later step raises e: an
\* HTTPException of the validation, raised before the first lookup, passes
\* through; any other exception leaves through the last except clause
get_risk_by_ids_and_type_raising(s, payload, e) ==
  LET v == validate_object_ids(payload.ids)
      r == get_periods_and_analyses(s, payload)
  IN IF ~v.ok THEN v.err
     ELSE IF ~r.ok THEN r.err
     ELSE HTTPException(500, <<"Internal server error: ", e>>)

\* get_adm3risk_filtered when a store lookup or a later step raises e
get_adm3risk_filtered_raising(s, data, e) ==
  LET va == ValidateEach(data.analysis_ids, "Invalid analysis_id")
      vx == ValidateEach(data.adm3_ids, "Invalid adm3_id")
  IN IF data.analysis_ids = <<>> \/ data.adm3_ids = <<>>
     THEN HTTPException(400, <<"analysis_ids y adm3_ids son requeridos">>)
     ELSE IF ~va.ok THEN va.err
     ELSE IF ~vx.ok THEN vx.err
     ELSE HTTPException(500, <<"Internal server error">>)

RiskByIdsAndTypeRaises ==
  /\ resp = NoResponse
  /\ \E payload \in GlobalRequests, e \in Exceptions :
       /\ req' = [endpoint |-> GlobalEndpoint, payload |-> payload, raised |-> e]
       /\ resp' = get_risk_by_ids_and_type_raising(db, payload, e)
  /\ UNCHANGED db

Adm3RiskFilteredRaises ==
  /\ resp = NoResponse
  /\ \E data \in Adm3RiskFilterRequests, e \in Exceptions :
       /\ req' = [endpoint |-> FilteredEndpoint, payload |-> data, raised |-> e]
       /\ resp' = get_adm3risk_filtered_raising(db, data, e)
  /\ UNCHANGED db

NextRaises == RiskByIdsAndTypeRaises \/ Adm3RiskFilteredRaises \/ Deliver

SpecRaises == InitSelectors /\ [][NextRaises]_vars

----------------------------------------------------------------------------
(* C17 *)

\* the request met an unexpected exception
Raised == "raised" \in DOMAIN req

\* the response the handler gives when nothing fails
Unfailing == Handle(db, req)

\* C17: a request of an aggregation endpoint that meets an unexpected
\* exception ends with a 500 whose detail does not carry the exception text,
\* never with a result; a 4xx raised inside the handler is passed through
\* unchanged.
C17_GenericInternalError ==
  Raised
  => /\ resp.status # 200
     /\ Unfailing.status \in 400..499 => resp = Unfailing
     /\ Unfailing.status = 200
        => /\ resp.status = 500
           /\ req.raised \notin Range(resp.detail)

----------------------------------------------------------------------------
(* C18 *)

Whitelist ==
  IF req.endpoint = DeforestationPagedEndpoint THEN Range(DeforestationAllowedFields)
  ELSE Range(Adm3AllowedFields)

\* the search terms a request names
AskedTerms == StrippedParts(req.query.search[1])

\* the whitelisted fields a request searches: those it names, or all
AskedFields ==
  IF Falsy(req.query.search_fields) THEN Cardinality(Whitelist)
  ELSE Len(SelectSeq(StrippedParts(req.query.search_fields[1]), LAMBDA f : f \in Whitelist))

\* the handler executed a search query
Searched == "store" \in DOMAIN resp /\ resp.store.query # None

\* C18: a paged search request with more than 5 search terms, or with more
\* than 50 term x field combinations, is answered 400 and no search query is
\* executed; every executed search query has at most 50 combinations and
\* terms of at most 25 characters.
C18_SearchCaps ==
  (IsPaged /\ ~Falsy(req.query.search))
  => /\ (Len(AskedTerms) > MAX_TERMS \/ Len(AskedTerms) * AskedFields > MAX_COMBINATIONS)
        => (resp.status = 400 /\ ~Searched)
     /\ Searched
        => /\ Len(resp.store.query[1].or) <= MAX_COMBINATIONS
           /\ \A n \in 1..Len(resp.store.query[1].or) :
                Len(RegexTokens(resp.store.query[1].or[n].regex)) <= MAX_TERM_LENGTH

----------------------------------------------------------------------------
(* C19 *)

\* a sort field without one leading "-"
WithoutLeadingDash(f) == IF f # <<>> /\ Head(f) = "-" THEN Tail(f) ELSE f

\* the fields an order_by value names
NamedSortFields ==
  LET raw == split(req.query.order_by[1])
  IN {WithoutLeadingDash(strip(raw[i])) : i \in 1..Len(raw)}

\* C19: every sort field a paged endpoint hands to the store is, without one
\* leading "-", in the endpoint's whitelist, and an order_by that names a
\* field outside the whitelist is answered 400.
C19_SortWhitelist ==
  IsPaged
  => /\ "store" \in DOMAIN resp
        => \A i \in 1..Len(resp.store.order_by) :
             WithoutLeadingDash(resp.store.order_by[i]) \in Whitelist
     /\ (~Falsy(req.query.order_by) /\ ~(NamedSortFields \subseteq Whitelist))
        => resp.status = 400

----------------------------------------------------------------------------
(* POST /farmriskverification/ *)

\* verification records the store may hold
MaxVerifications == 2

\* ids the driver gives to inserted documents, in order of use
VerificationIds == [i \in 1..(MaxVerifications + 1) |-> <<"v", i>>]
NewUserId == "u3"

UserDocs ==
  <<[id |-> "u1", ext_id |-> "sub1", admin |-> FALSE],
    [id |-> "u2", ext_id |-> "sub2", admin |-> TRUE]>>

\* the UserVerifier documents: the rights of user u1
UserVerifierDocs == <<[id |-> "u1"]>>

VerificationStore ==
  [farmrisk |-> WithIds(<<[farm_id |-> "f1", analysis_id |-> "a", risk_direct |-> TRUE,
                           risk_input |-> FALSE, risk_output |-> FALSE,
                           deforestation |-> None]>>),
   user |-> UserDocs,
   userverifier |-> UserVerifierDocs,
   farmriskverification |-> <<>>]

\* the Authorization header of a request: missing (or not a Bearer
\* credential), not a JWT, signed with a key the identity provider does not
\* publish, rejected by jwt.decode, expired, or decoded to a payload with or
\* without a sub
Tokens ==
  {[kind |-> k, sub |-> None] :
     k \in {"missing", "malformed", "unknown_key", "invalid", "expired", "valid"}}
  \cup {[kind |-> "valid", sub |-> Some(e)] : e \in {"sub1", "sub2", "sub3"}}

\* the outcome of requests.get(jwks_url): the keys, or a status other than 200
JwksOutcomes == {"keys", "unavailable"}

\* the status with which HTTPBearer() rejects a request without a Bearer
\* credential: 403 "Not authenticated" in the FastAPI releases that follow
\* the OAuth2 wording, 401 in the later ones
BearerRejections == {401, 403}

\* User.objects(ext_id=ext_id).first()
UserByExtId(s, ext_id) == SelectSeq(s.user, LAMBDA u : u.ext_id = ext_id)

\* User.objects(id=...).first()
UserById(s, id) == SelectSeq(s.user, LAMBDA u : u.id = id)

\* serialize_user_permissions; a Keycloak sub is not a 24-character text, so
\* the user is looked up by ext_id
serialize_user_permissions(s, ext_id) ==
  LET found == UserByExtId(s, ext_id)
  IN IF found = <<>> THEN [id |-> None, ext_id |-> None, admin |-> FALSE]
     ELSE [id |-> Some(found[1].id), ext_id |-> Some(found[1].ext_id),
           admin |-> found[1].admin]

\* validate_local_token: the user of the token's sub is created when the
\* store does not know it.  jwt.get_unverified_header and requests.get run
\* before the try block, so what they raise is not turned into a 401.
validate_local_token(s, token, jwks) ==
  IF token.kind = "malformed"
  THEN [ok |-> FALSE, store |-> s, err |-> Unhandled]
  ELSE IF jwks = "unavailable"
  THEN [ok |-> FALSE, store |-> s,
        err |-> HTTPException(500, <<"Error fetching JWKS from Keycloak">>)]
  ELSE IF token.kind = "unknown_key"
  THEN [ok |-> FALSE, store |-> s, err |-> HTTPException(401, <<"Public key not found">>)]
  ELSE IF token.kind = "expired"
  THEN [ok |-> FALSE, store |-> s, err |-> HTTPException(401, <<"Expired token">>)]
  ELSE IF token.kind = "invalid"
  THEN [ok |-> FALSE, store |-> s, err |-> HTTPException(401, <<"Invalid Token">>)]
  ELSE IF token.sub = None
  THEN [ok |-> FALSE, store |-> s,
        err |-> HTTPException(400, <<"Token does not contain 'sub' field">>)]
  ELSE LET ext_id == token.sub[1]
           saved == IF UserByExtId(s, ext_id) # <<>> THEN s
                    ELSE [s EXCEPT !.user =
                            Append(@, [id |-> NewUserId, ext_id |-> ext_id, admin |-> FALSE])]
       IN [ok |-> TRUE, store |-> saved,
           user_db |-> serialize_user_permissions(saved, ext_id)]

\* require_token: Depends(security), then validate_local_token
require_token(s, token, jwks, rejection) ==
  IF token.kind = "missing"
  THEN [ok |-> FALSE, store |-> s, err |-> HTTPException(rejection, <<"Not authenticated">>)]
  ELSE validate_local_token(s, token, jwks)

\* require_admin: Depends(require_token), then the admin flag of user_db
require_admin(s, token, jwks, rejection) ==
  LET v == require_token(s, token, jwks, rejection)
  IN IF ~v.ok THEN v
     ELSE IF ~v.user_db.admin
     THEN [ok |-> FALSE, store |-> v.store,
           err |-> HTTPException(403, <<"User is not an administrator">>)]
     ELSE v

\* create_farmrisk_verification, after the token was validated
create_farmrisk_verification(s, data, user_db, now) ==
  LET farmrisk == SelectSeq(s.farmrisk, LAMBDA r : r.id = ObjectIdStr(data.farmrisk_id))
      user == UserById(s, user_db.id[1])
      rights == SelectSeq(s.userverifier, LAMBDA w : w.id = user_db.id[1])
      new_verification ==
        [id |-> VerificationIds[Len(s.farmriskverification) + 1],
         user_id |-> user[1].id,
         farmrisk |-> farmrisk[1].id,
         verification |-> now,
         observation |-> data.observation,
         status |-> data.status]
  IN IF ~ObjectId_is_valid(data.farmrisk_id)
     THEN [store |-> s, resp |-> HTTPException(400, <<"Invalid farmrisk_id", data.farmrisk_id>>)]
     ELSE IF farmrisk = <<>>
     THEN [store |-> s, resp |-> HTTPException(404, <<"FarmRisk not found", data.farmrisk_id>>)]
     ELSE IF user_db.id = None
     THEN [store |-> s, resp |-> HTTPException(401, <<"User ID not found in token">>)]
     ELSE IF user = <<>>
     THEN [store |-> s, resp |-> HTTPException(404, <<"User not found", user_db.id[1]>>)]
     ELSE IF rights = <<>>
     THEN [store |-> s,
           resp |-> HTTPException(403, <<"User not have verification rights", user_db.id[1]>>)]
     ELSE [store |-> [s EXCEPT !.farmriskverification = Append(@, new_verification)],
           resp |-> Ok([id |-> new_verification.id,
                        user_id |-> user[1].id,
                        farmrisk_id |-> farmrisk[1].id,
                        verification_date |-> isoformat(now),
                        observation |-> data.observation,
                        status |-> data.status])]

\* the request: Depends(require_token), then the handler
post_farmriskverification(s, token, jwks, rejection, data, now) ==
  LET v == require_token(s, token, jwks, rejection)
  IN IF ~v.ok THEN [store |-> v.store, resp |-> v.err]
     ELSE create_farmrisk_verification(v.store, data, v.user_db, now)

VerificationEndpoint == "/farmriskverification/"

VerificationRequests ==
  {[farmrisk_id |-> f, observation |-> o, status |-> st] :
     f \in {"r1", "r2", "zz"}, o \in {None, Some("obs")}, st \in BOOLEAN}

\* datetime.now()
Clock == {datetime(2026, 2, 10, 14, 30, 0)}

InitVerification ==
  /\ db = VerificationStore
  /\ req = NoRequest
  /\ resp = NoResponse

CreateFarmRiskVerification ==
  /\ resp = NoResponse
  /\ Len(db.farmriskverification) < MaxVerifications
  /\ \E token \in Tokens, jwks \in JwksOutcomes, rejection \in BearerRejections,
        data \in VerificationRequests, now \in Clock :
       LET r == post_farmriskverification(db, token, jwks, rejection, data, now)
       IN /\ req' = [endpoint |-> VerificationEndpoint, token |-> token, data |-> data]
          /\ resp' = r.resp
          /\ db' = r.store

NextVerification == CreateFarmRiskVerification \/ Deliver

SpecVerification == InitVerification /\ [][NextVerification]_vars

----------------------------------------------------------------------------
(* C20 *)

\* the step answers a POST /farmriskverification/ request
AnswersVerification ==
  resp = NoResponse /\ resp' # NoResponse /\ req'.endpoint = VerificationEndpoint

\* the token of the request names a user the store holds, with verifier rights
KnownVerifier ==
  /\ req'.token.kind = "valid" /\ req'.token.sub # None
  /\ \E u \in Range(db.user) :
       /\ u.ext_id = req'.token.sub[1]
       /\ \E w \in Range(db.userverifier) : w.id = u.id

\* C20: POST /farmriskverification/ leaves the store unchanged on every error
\* outcome; on success the farmrisk_id is well-formed and names an existing
\* FarmRisk, the token resolves to an existing user with verifier rights,
\* exactly one verification record is added and everything else is unchanged.
C20_InsertOnlyWhenAuthorized ==
  [][AnswersVerification
     => /\ resp'.status # 200 => db' = db
        /\ resp'.status = 200
           => /\ ObjectId_is_valid(req'.data.farmrisk_id)
              /\ \E r \in Range(db.farmrisk) : r.id = ObjectIdStr(req'.data.farmrisk_id)
              /\ KnownVerifier
              /\ Len(db'.farmriskverification) = Len(db.farmriskverification) + 1
              /\ SubSeq(db'.farmriskverification, 1, Len(db.farmriskverification))
                   = db.farmriskverification
              /\ db' = [db EXCEPT !.farmriskverification = db'.farmriskverification]]_vars

----------------------------------------------------------------------------
(* C21 *)

\* C21: after any sequence of requests every collection other than the
\* verification records is exactly as it was before the sequence.
C21_OnlyVerificationsWritten ==
  /\ db.farmrisk = VerificationStore.farmrisk
  /\ db.user = VerificationStore.user
  /\ db.userverifier = VerificationStore.userverifier

----------------------------------------------------------------------------
(* POST /farmrisk/by-analysis-and-farm *)

\* verification documents a store of this endpoint may hold
MaxStoredVerifications == 3

T_early == datetime(2025, 3, 1, 9, 0, 0)
T_late == datetime(2025, 11, 20, 8, 30, 0)

\* v2 and v3 were saved at the same instant; v4 has no timestamp and no status
VerificationDocs ==
  {[id |-> "v1", farmrisk |-> "r1", user_id |-> "u1", verification |-> Some(T_early),
    observation |-> Some("first"), status |-> Some(TRUE)],
   [id |-> "v2", farmrisk |-> "r1", user_id |-> "u2", verification |-> Some(T_late),
    observation |-> None, status |-> Some(FALSE)],
   [id |-> "v3", farmrisk |-> "r1", user_id |-> "u1", verification |-> Some(T_late),
    observation |-> Some("again"), status |-> Some(TRUE)],
   [id |-> "v4", farmrisk |-> "r2", user_id |-> "u1", verification |-> None,
    observation |-> None, status |-> None],
   [id |-> "v5", farmrisk |-> "r2", user_id |-> "u2", verification |-> Some(T_early),
    observation |-> Some("other"), status |-> Some(FALSE)]}

\* documents in natural order, no document twice
VerificationLists ==
  {vs \in BSeq(VerificationDocs, MaxStoredVerifications) :
     \A i, j \in 1..Len(vs) : i # j => vs[i] # vs[j]}

Adm3LabelDocs == <<[id |-> "x", label |-> Some(<<"A", ",", " ", "B">>)]>>

FarmRiskDocs ==
  WithIds(<<[farm_id |-> "f1", analysis_id |-> "a", risk_direct |-> TRUE,
             risk_input |-> FALSE, risk_output |-> FALSE, deforestation |-> None],
            [farm_id |-> "f2", analysis_id |-> "a", risk_direct |-> FALSE,
             risk_input |-> FALSE, risk_output |-> FALSE, deforestation |-> None],
            [farm_id |-> "f1", analysis_id |-> "b", risk_direct |-> FALSE,
             risk_input |-> TRUE, risk_output |-> FALSE, deforestation |-> None]>>)

FarmRiskStore(verifications) ==
  [farmrisk |-> FarmRiskDocs, farm |-> FarmDocs, adm3 |-> Adm3LabelDocs,
   farmriskverification |-> verifications, user |-> UserDocs]

\* the sort key of order_by("-verification"): a missing timestamp is the
\* smallest key
KeyLeq(v, w) ==
  \/ v.verification = None
  \/ w.verification # None /\ TupleLeq(v.verification[1], w.verification[1])

\* one document put into a list sorted by descending key, behind the
\* documents whose key is not smaller
InsertDescending(sorted, v) ==
  LET before == {i \in 1..Len(sorted) : KeyLeq(v, sorted[i])}
      n == Cardinality(before)
  IN SubSeq(sorted, 1, n) \o <<v>> \o SubSeq(sorted, n + 1, Len(sorted))

RECURSIVE OrderDescendingFrom(_, _, _)
OrderDescendingFrom(docs, i, out) ==
  IF i > Len(docs) THEN out
  ELSE OrderDescendingFrom(docs, i + 1, InsertDescending(out, docs[i]))

\* the order in which the store leaves documents of equal sort key
TieOrders == {"natural", "reverse"}

\* FarmRiskVerification.objects(farmrisk in ids).order_by("-verification")
VerificationCursor(s, farmrisk_ids, tie) ==
  LET found == SelectSeq(s.farmriskverification, LAMBDA v : v.farmrisk \in farmrisk_ids)
  IN OrderDescendingFrom(IF tie = "natural" THEN found ELSE Reverse(found), 1, <<>>)

\* (mutant) the last verification of the cursor is kept for a FarmRisk
RECURSIVE KeepLastFrom(_, _, _)
KeepLastFrom(verifications, i, out) ==
  IF i > Len(verifications) THEN out
  ELSE LET v == verifications[i]
       IN KeepLastFrom(verifications, i + 1,
            Put(out, v.farmrisk,
                [user_id |-> Some(v.user_id),
                 verification_date |-> iso(v.verification),
                 observation |-> v.observation,
                 status |-> IF v.status # None THEN v.status[1] ELSE FALSE]))

\* verification_by_farmrisk: the first verification of the cursor is kept
RECURSIVE VerificationByFarmRiskFrom(_, _, _)
VerificationByFarmRiskFrom(verifications, i, out) ==
  IF i > Len(verifications) THEN out
  ELSE LET v == verifications[i]
       IN VerificationByFarmRiskFrom(verifications, i + 1,
            IF v.farmrisk \in DOMAIN out THEN out
            ELSE Put(out, v.farmrisk,
                     [user_id |-> Some(v.user_id),
                      verification_date |-> iso(v.verification),
                      observation |-> v.observation,
                      status |-> IF v.status # None THEN v.status[1] ELSE FALSE]))

\* one row of the response; None stands for the empty object {}
FarmRiskRow(s, d, verification_by_farmrisk) ==
  LET farm == SelectSeq(s.farm, LAMBDA f : f.id = d.farm_id)
      adm3 == IF farm = <<>> THEN <<>>
              ELSE SelectSeq(s.adm3, LAMBDA x : x.id = farm[1].adm3_id)
      parts == IF adm3 = <<>> THEN NoParts ELSE farmrisk_label_parts(adm3[1].label)
  IN [id |-> d.id, analysis_id |-> d.analysis_id, farm_id |-> d.farm_id,
      risk_direct |-> d.risk_direct, risk_input |-> d.risk_input,
      risk_output |-> d.risk_output,
      department |-> parts[1], municipality |-> parts[2], vereda |-> parts[3],
      verification |-> IF d.id \in DOMAIN verification_by_farmrisk
                       THEN Some(verification_by_farmrisk[d.id]) ELSE None]

RECURSIVE FarmRiskRowsFrom(_, _, _, _, _)
FarmRiskRowsFrom(s, raw_docs, i, verification_by_farmrisk, grouped) ==
  IF i > Len(raw_docs) THEN grouped
  ELSE LET d == raw_docs[i]
           g == SetDefault(grouped, d.analysis_id, <<>>)
       IN FarmRiskRowsFrom(s, raw_docs, i + 1, verification_by_farmrisk,
            [g EXCEPT ![d.analysis_id] =
               Append(@, FarmRiskRow(s, d, verification_by_farmrisk))])

get_farmrisk_filtered(s, data, tie) ==
  LET va == ValidateEach(data.analysis_ids, "Invalid analysis_id")
      vf == ValidateEach(data.farm_ids, "Invalid farm_id")
      grouped_results == [a \in Range(va.oids) |-> <<>>]
      farmrisks == SelectSeq(s.farmrisk,
                     LAMBDA r : r.analysis_id \in Range(va.oids)
                                /\ r.farm_id \in Range(vf.oids))
      verifications ==
        VerificationCursor(s, {farmrisks[i].id : i \in 1..Len(farmrisks)}, tie)
      verification_by_farmrisk == VerificationByFarmRiskFrom(verifications, 1, EmptyDict)
  IN IF ~va.ok THEN va.err
     ELSE IF ~vf.ok THEN vf.err
     ELSE IF va.oids = <<>> \/ vf.oids = <<>> THEN Ok(grouped_results)
     ELSE IF farmrisks = <<>> THEN Ok(grouped_results)
     ELSE Ok(FarmRiskRowsFrom(s, farmrisks, 1, verification_by_farmrisk, grouped_results))

\* the request: Depends(require_admin) of the router, then the handler; handler
\* tells whether the handler was run
post_farmrisk_filtered(s, token, jwks, rejection, data, tie) ==
  LET v == require_admin(s, token, jwks, rejection)
  IN IF ~v.ok THEN [store |-> v.store, resp |-> v.err, handler |-> FALSE]
     ELSE [store |-> v.store, resp |-> get_farmrisk_filtered(v.store, data, tie),
           handler |-> TRUE]

FarmRiskFilteredEndpoint == "/farmrisk/by-analysis-and-farm"

FarmRiskFilterRequests ==
  {[analysis_ids |-> a, farm_ids |-> f] :
     a \in {<<>>, <<"a">>, <<"a", "b">>, <<"zz">>},
     f \in {<<>>, <<"f1">>, <<"f1", "f2">>, <<"f2", "zz">>}}

InitFarmRisk ==
  /\ db \in {FarmRiskStore(vs) : vs \in VerificationLists}
  /\ req = NoRequest
  /\ resp = NoResponse

FarmRiskFiltered ==
  /\ resp = NoResponse
  /\ \E token \in Tokens, jwks \in JwksOutcomes, rejection \in BearerRejections,
        data \in FarmRiskFilterRequests, tie \in TieOrders :
       LET r == post_farmrisk_filtered(db, token, jwks, rejection, data, tie)
       IN /\ req' = [endpoint |-> FarmRiskFilteredEndpoint, token |-> token,
                     jwks |-> jwks, data |-> data]
          /\ resp' = [handler |-> r.handler] @@ r.resp
          /\ db' = r.store

NextFarmRisk == FarmRiskFiltered \/ Deliver

SpecFarmRisk == InitFarmRisk /\ [][NextFarmRisk]_vars

----------------------------------------------------------------------------
(* C22 *)

IsFarmRiskFiltered ==
  req.endpoint = FarmRiskFilteredEndpoint /\ resp.status = 200

\* the rows of the response, of every analysis
FarmRiskResponseRows ==
  UNION {Range(resp.body[a]) : a \in DOMAIN resp.body}

VerificationsOf(farmrisk_id) ==
  {v \in Range(db.farmriskverification) : v.farmrisk = farmrisk_id}

\* what the response shows of a verification
VerificationView(v) ==
  [user_id |-> Some(v.user_id),
   verification_date |-> IF v.verification = None THEN None
                         ELSE Some(isoformat(v.verification[1])),
   observation |-> v.observation,
   status |-> v.status = Some(TRUE)]

\* C22: the verification attached to a FarmRisk row of the
\* POST /farmrisk/by-analysis-and-farm response is a verification of that row
\* whose timestamp is the greatest among the verifications of the row, and the
\* empty object when the row has none.
C22_LatestVerification ==
  IsFarmRiskFiltered =>
    \A row \in FarmRiskResponseRows :
      IF VerificationsOf(row.id) = {}
      THEN row.verification = None
      ELSE \E v \in VerificationsOf(row.id) :
             /\ \A w \in VerificationsOf(row.id) : KeyLeq(w, v)
             /\ row.verification = Some(VerificationView(v))

\* a row whose earlier verification is stored before its later one, and a row
\* without verification, in one response
C22_Witness ==
  /\ IsFarmRiskFiltered
  /\ \E row \in FarmRiskResponseRows :
       /\ \E v, w \in VerificationsOf(row.id) : ~KeyLeq(w, v)
       /\ db.farmriskverification[1].verification = Some(T_early)
       /\ db.farmriskverification[1].farmrisk = row.id
       /\ row.verification # None
       /\ row.verification[1].verification_date = Some(isoformat(T_late))
  /\ \E row \in FarmRiskResponseRows : row.verification = None

----------------------------------------------------------------------------
(* C23 *)

AnsweredAdminGated ==
  req.endpoint = FarmRiskFilteredEndpoint /\ resp # NoResponse

\* the request cannot be authenticated
AuthenticationFails ==
  \/ req.token.kind \in {"missing", "malformed", "unknown_key", "invalid", "expired"}
  \/ req.jwks = "unavailable"

\* the token is valid and names a user without the admin flag
ValidButNotAdmin ==
  /\ ~AuthenticationFails
  /\ req.token.sub # None
  /\ \A u \in Range(db.user) : u.ext_id = req.token.sub[1] => ~u.admin

\* C23: on an admin-gated endpoint every authentication failure (missing,
\* malformed, invalid or expired token, unknown signing key, public keys that
\* cannot be fetched) is answered 401, a valid token of a user without the
\* admin flag is answered 403, and in both cases the handler is not run.
C23_AuthFailuresAre401 ==
  AnsweredAdminGated =>
    /\ AuthenticationFails => resp.status = 401 /\ ~resp.handler
    /\ ValidButNotAdmin => resp.status = 403 /\ ~resp.handler

----------------------------------------------------------------------------
(* Request processing in steps: what has been looked up when a request ends *)

\* the store of the two risk endpoints, with the users of token validation
StepStore(an) == [user |-> UserDocs] @@ Store(an, <<>>, <<>>)

StepSelectors ==
  {Selector(Null, <<>>, <<>>), Selector("annual", <<>>, <<>>),
   Selector(Null, <<"a">>, <<>>), Selector(Null, <<"zz">>, <<>>),
   Selector(Null, <<>>, <<"d1">>), Selector(Null, <<>>, <<"zz">>)}

StepRiskRequests ==
  {GlobalRequest(e, ids, sel) :
     e \in {"adm3", "farm"}, ids \in {<<>>, <<"x">>, <<"zz">>, LongIds},
     sel \in StepSelectors}

StepFilteredRequests ==
  {[analysis_ids |-> an, adm3_ids |-> ids] :
     an \in {<<>>, <<"a">>, <<"zz">>}, ids \in {<<>>, <<"x">>, <<"x", "zz">>}}

\* validate_local_token reaches User.objects(ext_id=...) for a decoded
\* payload with a sub
UserLookup(token, jwks) ==
  IF token.kind = "valid" /\ token.sub # None /\ jwks = "keys" THEN <<"user">> ELSE <<>>

\* the collections _get_periods_and_analyses reads once its id list is valid
SelectorLookups(s, payload) ==
  LET r == get_periods_and_analyses(s, payload)
  IN IF payload.analysis_ids # <<>>
     THEN <<"analysis">> \o (IF r = EmptyResolved THEN <<>> ELSE <<"deforestation">>)
     ELSE <<"deforestation">>
          \o (IF DOMAIN r.defo_periods = {} THEN <<>> ELSE <<"analysis">>)

\* (mutant) the ids of the request are validated after the periods are resolved
RiskStepIdsLast(pc) ==
  CASE pc = "auth" -> "selector"
    [] pc = "selector" -> "ids"
    [] pc = "ids" -> "branch"
    [] pc = "branch" -> "done"

\* the order of the steps of POST /risk/by-ids-and-type: the router's
\* dependency, _validate_object_ids, _get_periods_and_analyses, the branch of
\* the entity type
RiskStepAfter(pc) ==
  CASE pc = "auth" -> "ids"
    [] pc = "ids" -> "selector"
    [] pc = "selector" -> "branch"
    [] pc = "branch" -> "done"

Running(rq, pc, more, s) ==
  [rq |-> [rq EXCEPT !.pc = pc, !.lookups = @ \o more], resp |-> NoResponse, store |-> s]

Ended(rq, more, response, s) ==
  [rq |-> [rq EXCEPT !.pc = "done", !.lookups = @ \o more], resp |-> response, store |-> s]

\* one step of POST /risk/by-ids-and-type
risk_step(s, rq, rejection) ==
  CASE rq.pc = "auth" ->
         LET v == require_admin(s, rq.token, rq.jwks, rejection)
             more == UserLookup(rq.token, rq.jwks)
         IN IF v.ok THEN Running(rq, RiskStepAfter("auth"), more, v.store)
            ELSE Ended(rq, more, v.err, v.store)
    [] rq.pc = "ids" ->
         LET v == validate_object_ids(rq.payload.ids)
         IN IF v.ok THEN Running(rq, RiskStepAfter("ids"), <<>>, s)
            ELSE Ended(rq, <<>>, v.err, s)
    [] rq.pc = "selector" ->
         LET r == get_periods_and_analyses(s, rq.payload)
         IN IF r.ok
            THEN Running(rq, RiskStepAfter("selector"), SelectorLookups(s, rq.payload), s)
            ELSE Ended(rq, <<>>, r.err, s)
    [] rq.pc = "branch" ->
         Ended(rq, <<rq.payload.entity_type>>, get_risk_by_ids_and_type(s, rq.payload), s)

\* one step of POST /adm3risk/by-analysis-and-adm3: the validation of the
\* body, then the lookups
filtered_step(s, rq) ==
  LET response == get_adm3risk_filtered(s, rq.payload)
  IN CASE rq.pc = "validate" ->
            IF response.status = 400 THEN Ended(rq, <<>>, response, s)
            ELSE Running(rq, "lookups", <<>>, s)
       [] rq.pc = "lookups" ->
            Ended(rq, <<"analysis", "deforestation", "farm", "adm3risk", "farmrisk">>,
                  response, s)

InitSteps ==
  /\ db \in {StepStore(an) : an \in AnalysisStores}
  /\ req = NoRequest
  /\ resp = NoResponse

ReceiveRisk ==
  /\ req = NoRequest /\ resp = NoResponse
  /\ \E token \in Tokens, jwks \in JwksOutcomes, payload \in StepRiskRequests :
       req' = [endpoint |-> GlobalEndpoint, token |-> token, jwks |-> jwks,
               payload |-> payload, pc |-> "auth", lookups |-> <<>>]
  /\ UNCHANGED <<db, resp>>

StepRisk ==
  /\ req.endpoint = GlobalEndpoint /\ resp = NoResponse
  /\ \E rejection \in BearerRejections :
       LET r == risk_step(db, req, rejection)
       IN req' = r.rq /\ resp' = r.resp /\ db' = r.store

ReceiveFiltered ==
  /\ req = NoRequest /\ resp = NoResponse
  /\ \E data \in StepFilteredRequests :
       req' = [endpoint |-> FilteredEndpoint, payload |-> data, pc |-> "validate",
               lookups |-> <<>>]
  /\ UNCHANGED <<db, resp>>

StepFiltered ==
  /\ req.endpoint = FilteredEndpoint /\ resp = NoResponse
  /\ LET r == filtered_step(db, req)
     IN req' = r.rq /\ resp' = r.resp /\ db' = r.store

NextSteps == ReceiveRisk \/ StepRisk \/ ReceiveFiltered \/ StepFiltered \/ Deliver

SpecSteps == InitSteps /\ [][NextSteps]_vars

----------------------------------------------------------------------------
(* C24 *)

ValidationError ==
  /\ req.endpoint \in {GlobalEndpoint, FilteredEndpoint}
  /\ resp.status = 400

----------------------------------------------------------------------------
(* The batched FarmRisk lookup of _build_adm3_sit_codes_for_analysis *)

\* farms of the requested adm3s, beside the lists around the batch size
MaxFarms == 5

\* the rows coll_fr.find returns for each batch of farm ids, batch by batch
FarmRiskBatches(s, analysis_oid, farm_ids, size) ==
  LET batches == chunks(farm_ids, size)
  IN [b \in 1..Len(batches) |-> FarmRiskBatch(s, analysis_oid, batches[b])]

\* farm ids are numbered here; a list of farm ids holds no id twice.  The
\* long lists are cut with the configured batch size only.
FarmIdLists ==
  {[i \in 1..n |-> i] :
     n \in (0..MaxFarms) \cup {FARMRISK_IN_BATCH, FARMRISK_IN_BATCH + 1,
                               2 * FARMRISK_IN_BATCH + 1}}

BatchSizes == {1, 2, 3, FARMRISK_IN_BATCH}

BatchRows ==
  {[id |-> <<"fr", f, a>>, farm_id |-> f, analysis_id |-> a] :
     f \in {2, FARMRISK_IN_BATCH + 1, 3 * FARMRISK_IN_BATCH},
     a \in {"a", "b"}}

BatchStores ==
  {[farmrisk |-> rows] :
     rows \in {r \in BSeq(BatchRows, 2) : \A i, j \in 1..Len(r) : i # j => r[i] # r[j]}}

BatchEndpoint == "_build_adm3_sit_codes_for_analysis#batches"

InitBatches ==
  /\ db \in BatchStores
  /\ req = NoRequest
  /\ resp = NoResponse

FarmRiskInBatches ==
  /\ resp = NoResponse
  /\ \E farm_ids \in FarmIdLists, size \in BatchSizes :
       /\ Len(farm_ids) <= MaxFarms \/ size = FARMRISK_IN_BATCH
       /\ req' = [endpoint |-> BatchEndpoint, analysis_oid |-> "a",
                  farm_ids |-> farm_ids, size |-> size]
       /\ resp' = Ok([batches |-> chunks(farm_ids, size),
                      fr_rows |-> FarmRiskBatches(db, "a", farm_ids, size)])
  /\ UNCHANGED db

NextBatches == FarmRiskInBatches \/ Deliver

SpecBatches == InitBatches /\ [][NextBatches]_vars

----------------------------------------------------------------------------
(* C25 *)

IsBatched == req.endpoint = BatchEndpoint /\ resp.status = 200

\* how often a row is among the rows of the batches
TimesFetched(row) ==
  Cardinality({bk \in UNION {{<<b, k>> : k \in 1..Len(resp.body.fr_rows[b])} :
                               b \in 1..Len(resp.body.fr_rows)} :
                 resp.body.fr_rows[bk[1]][bk[2]] = row})

\* C25: the FarmRisk lookup is issued in consecutive chunks of at most the
\* batch size; the chunks are non-empty, disjoint and together are the farm id
\* list in order, so every FarmRisk row of the analysis and of a listed farm is
\* fetched exactly once.
C25_BatchedLookup ==
  IsBatched =>
    LET batches == resp.body.batches
        ids == req.farm_ids
        n == Len(batches)
    IN /\ \A b \in 1..n : Len(batches[b]) >= 1 /\ Len(batches[b]) <= req.size
       /\ \A b \in 1..n : \A k \in 1..Len(batches[b]) :
            /\ (b - 1) * req.size + k <= Len(ids)
            /\ batches[b][k] = ids[(b - 1) * req.size + k]
       /\ \A b \in 1..(n - 1) : Len(batches[b]) = req.size
       /\ IF n = 0 THEN ids = <<>>
          ELSE (n - 1) * req.size + Len(batches[n]) = Len(ids)
       /\ \A b, c \in 1..n : b # c => Range(batches[b]) \cap Range(batches[c]) = {}
       /\ \A row \in Range(db.farmrisk) :
            TimesFetched(row) =
              IF row.analysis_id = req.analysis_oid /\ row.farm_id \in Range(ids)
              THEN 1 ELSE 0

\* the list is one id longer than two batches of the configured size, and a
\* row of the last, short batch is fetched
C25_Witness ==
  /\ IsBatched
  /\ req.size = FARMRISK_IN_BATCH
  /\ Len(req.farm_ids) = 2 * FARMRISK_IN_BATCH + 1
  /\ Len(resp.body.batches) = 3
  /\ \E row \in Range(db.farmrisk) :
       row.farm_id = FARMRISK_IN_BATCH + 1 /\ TimesFetched(row) = 1

----------------------------------------------------------------------------
(* user_has_permissions *)

\* roles a user may hold
MaxRoles == 2

\* the Role collection; a user may also refer to a role "rx" that is not there
RoleDocs ==
  <<[id |-> "ra", name |-> "farms", actions |-> <<"API_FARMS">>, options |-> <<"READ">>],
    [id |-> "rb", name |-> "plants", actions |-> <<"API_ENTERPRISE">>,
     options |-> <<"CREATE">>],
    [id |-> "rc", name |-> "apis", actions |-> <<"API_FARMS", "API_ENTERPRISE">>,
     options |-> <<>>],
    [id |-> "rd", name |-> "editor", actions |-> <<>>, options |-> <<"READ", "CREATE">>]>>

\* sub1 holds the roles, sub2 is an administrator without roles
PermissionStore(role_refs) ==
  [user |-> <<[id |-> "u1", ext_id |-> "sub1", admin |-> FALSE, role |-> role_refs],
              [id |-> "u2", ext_id |-> "sub2", admin |-> TRUE, role |-> <<>>]>>,
   role |-> RoleDocs]

\* get_user_by_identifier with an ext_id of Keycloak (not a 24-character text)
get_user_by_identifier(s, user_identifier) ==
  SelectSeq(s.user, LAMBDA u : u.ext_id = user_identifier)

\* get_user_roles: the roles of the user that the Role collection holds
get_user_roles(s, user_identifier) ==
  LET user == get_user_by_identifier(s, user_identifier)
      found(ref) == SelectSeq(s.role, LAMBDA r : r.id = ref)
      refs == IF user = <<>> THEN <<>>
              ELSE SelectSeq(user[1].role, LAMBDA ref : found(ref) # <<>>)
  IN [i \in 1..Len(refs) |->
        [id |-> found(refs[i])[1].id, name |-> found(refs[i])[1].name,
         actions |-> found(refs[i])[1].actions, options |-> found(refs[i])[1].options]]

\* all(x in have for x in required) or any(...)
Satisfied(required, have, require_all) ==
  IF require_all THEN \A x \in Range(required) : x \in have
  ELSE \E x \in Range(required) : x \in have

\* every action and option the roles give, together
Pooled(roles, field) == UNION {Range(roles[i][field]) : i \in 1..Len(roles)}

\* (mutant) actions and options are pooled over the roles
GrantedByPool(roles, actions, options, require_all_actions, require_all_options) ==
  /\ Satisfied(actions, Pooled(roles, "actions"), require_all_actions)
  /\ Satisfied(options, Pooled(roles, "options"), require_all_options)

\* case 1: one role has the actions and the options
GrantedByOneRole(roles, actions, options, require_all_actions, require_all_options) ==
  \E i \in 1..Len(roles) :
    /\ Satisfied(actions, Range(roles[i].actions), require_all_actions)
    /\ Satisfied(options, Range(roles[i].options), require_all_options)

\* a required list is None or a list; None and the empty list are falsy
user_has_permissions(s, user_identifier, required_actions, required_options, require_all_actions, require_all_options) ==
  LET user == get_user_by_identifier(s, user_identifier)
      roles == get_user_roles(s, user_identifier)
      actions == IF Falsy(required_actions) THEN <<>> ELSE required_actions[1]
      options == IF Falsy(required_options) THEN <<>> ELSE required_options[1]
  IN IF user = <<>> THEN FALSE
     ELSE IF user[1].admin THEN TRUE
     ELSE IF roles = <<>> THEN FALSE
     ELSE IF actions # <<>> /\ options # <<>>
     THEN GrantedByOneRole(roles, actions, options, require_all_actions, require_all_options)
     ELSE IF actions # <<>>
     THEN Satisfied(actions, Pooled(roles, "actions"), require_all_actions)
     ELSE IF options # <<>>
     THEN Satisfied(options, Pooled(roles, "options"), require_all_options)
     ELSE TRUE

RequiredActions ==
  {None, Some(<<>>), Some(<<"API_FARMS">>), Some(<<"API_ENTERPRISE">>),
   Some(<<"API_FARMS", "API_ENTERPRISE">>)}

RequiredOptions ==
  {None, Some(<<>>), Some(<<"READ">>), Some(<<"CREATE">>), Some(<<"READ", "CREATE">>)}

PermissionsEndpoint == "user_has_permissions"

InitPermissions ==
  /\ db \in {PermissionStore(refs) : refs \in BSeq({"ra", "rb", "rc", "rd", "rx"}, MaxRoles)}
  /\ req = NoRequest
  /\ resp = NoResponse

UserHasPermissions ==
  /\ resp = NoResponse
  /\ \E user \in {"sub1", "sub2", "sub3"}, ra \in RequiredActions, ro \in RequiredOptions,
        all_a \in BOOLEAN, all_o \in BOOLEAN :
       /\ req' = [endpoint |-> PermissionsEndpoint, user_identifier |-> user,
                  required_actions |-> ra, required_options |-> ro,
                  require_all_actions |-> all_a, require_all_options |-> all_o]
       /\ resp' = Ok(user_has_permissions(db, user, ra, ro, all_a, all_o))
  /\ UNCHANGED db

NextPermissions == UserHasPermissions \/ Deliver

SpecPermissions == InitPermissions /\ [][NextPermissions]_vars

----------------------------------------------------------------------------
(* C26 *)

\* the roles of the asking user that exist
RolesOfAsker ==
  {r \in Range(db.role) :
     \E u \in Range(db.user) : u.ext_id = req.user_identifier /\ r.id \in Range(u.role)}

\* a non-admin user with a role asks with both lists given
AsksBoth ==
  /\ req.endpoint = PermissionsEndpoint /\ resp.status = 200
  /\ \E u \in Range(db.user) : u.ext_id = req.user_identifier /\ ~u.admin
  /\ RolesOfAsker # {}
  /\ req.required_actions \notin {None, Some(<<>>)}
  /\ req.required_options \notin {None, Some(<<>>)}

RoleHas(have, required, require_all) ==
  IF require_all THEN Range(required) \subseteq Range(have)
  ELSE Range(required) \cap Range(have) # {}

\* C26: for a non-admin user with a role and with required actions and
\* required options both given, user_has_permissions is true exactly when one
\* single role satisfies the action requirement and the option requirement
\* together.
C26_OneRoleGrantsBoth ==
  AsksBoth =>
    (resp.body <=>
       \E r \in RolesOfAsker :
         /\ RoleHas(r.actions, req.required_actions[1], req.require_all_actions)
         /\ RoleHas(r.options, req.required_options[1], req.require_all_options))

\* the actions are in one role and the options in another: refused
C26_Witness ==
  /\ AsksBoth
  /\ Cardinality(RolesOfAsker) = 2
  /\ ~resp.body
  /\ \E r \in RolesOfAsker :
       RoleHas(r.actions, req.required_actions[1], req.require_all_actions)
  /\ \E r \in RolesOfAsker :
       RoleHas(r.options, req.required_options[1], req.require_all_options)

----------------------------------------------------------------------------
(* C27 *)

\* the POST /risk/by-ids-and-type request for one adm3, selected by one analysis
GlobalRequestOfPair(adm3_id, analysis_id) ==
  [endpoint |-> GlobalEndpoint,
   payload |-> GlobalRequest("adm3", <<adm3_id>>, Selector(Null, <<analysis_id>>, <<>>))]

\* what POST /risk/by-ids-and-type reports for the pair over the same store
GlobalEntriesOfPair(adm3_id, analysis_id) ==
  LET rq == GlobalRequestOfPair(adm3_id, analysis_id)
  IN {o \in EntriesOf(rq, Handle(db, rq)) :
        o.adm3_id = adm3_id /\ o.analysis_id = analysis_id}

\* C27: for the same (adm3, analysis) pair over the same store,
\* POST /adm3risk/by-analysis-and-adm3 and POST /risk/by-ids-and-type
\* (entity_type adm3, selected by that analysis) report the same risk_total,
\* farm_amount and def_ha.
C27_SameAggregates ==
  (IsFiltered /\ resp.status = 200) =>
    \A e \in Adm3Entries :
      \A o \in GlobalEntriesOfPair(e.adm3_id, e.analysis_id) : o = e

----------------------------------------------------------------------------
(* C28 *)

\* C28: in every paginated response has_next is true exactly when the
\* reported page is below total_pages, also for a skip that is not a multiple
\* of limit.
C28_HasNextIffPageBelowTotal ==
  (IsPaged /\ resp.status = 200)
  => (resp.body.has_next <=> resp.body.page < resp.body.total_pages)

----------------------------------------------------------------------------
(* GET /farmrisk/by-analysis-id *)

PAGE_SIZE_DEFAULT == 20
PAGE_SIZE_MAX == 200

\* FarmRisk documents in the store, page sizes and pages a client asks for
MaxPagedRows == 3
MaxPageSize == 2
MaxPageRequests == 5

\* the FarmRisk documents by _id; r2 belongs to another analysis
PagedRiskDoc(id) ==
  [id |-> id,
   analysis_id |-> IF id = "r2" THEN "b" ELSE "a",
   farm_id |-> IF id = "r3" THEN "f2" ELSE IF id = "r4" THEN "f3" ELSE "f1",
   risk_direct |-> id = "r1", risk_input |-> FALSE, risk_output |-> id = "r3",
   deforestation |-> IF id = "r1" THEN Some([ha |-> 3, prop |-> 1]) ELSE None]

\* the documents in every natural order, which need not be the order of _id
PagedRiskLists ==
  {[i \in 1..Len(ids) |-> PagedRiskDoc(ids[i])] :
     ids \in {s \in BSeq({"r1", "r2", "r3", "r4"}, MaxPagedRows) :
                \A i, j \in 1..Len(s) : i # j => s[i] # s[j]}}

FarmPolygonDocs ==
  <<[farm_id |-> "f1", latitude |-> 4, longitud |-> 74],
    [farm_id |-> "f1", latitude |-> 5, longitud |-> 75]>>

PagedRiskStore(rows) ==
  [farmrisk |-> rows, farm |-> FarmDocs, farmpolygons |-> FarmPolygonDocs,
   adm3 |-> Adm3Docs]

\* position of an _id in the order of ObjectIds
IdRank(id) == CHOOSE i \in 1..Len(FarmRiskIds) : FarmRiskIds[i] = id

\* (mutant) the natural order of the store is kept
natural_order(docs) == docs

\* .sort([("_id", 1)])
sort_by_id(docs) ==
  [i \in 1..Len(docs) |->
     CHOOSE d \in Range(docs) :
       Cardinality({e \in Range(docs) : IdRank(e.id) < IdRank(d.id)}) = i - 1]

\* farm_map.get(farm_id_str): the farm with its first polygon and adm3 name
FarmInfo(s, farm_id) ==
  LET farm == SelectSeq(s.farm, LAMBDA f : f.id = farm_id)
      poly == SelectSeq(s.farmpolygons, LAMBDA p : p.farm_id = farm_id)
      adm3 == IF farm = <<>> THEN <<>>
              ELSE SelectSeq(s.adm3, LAMBDA x : x.id = farm[1].adm3_id)
  IN IF farm = <<>> THEN None
     ELSE Some([farm_id |-> farm_id,
                adm3_id |-> as_object_id(farm[1].adm3_id),
                adm3_name |-> IF adm3 = <<>> THEN None ELSE Some(adm3[1].name),
                ext_id |-> farm[1].ext_id,
                latitude |-> IF poly = <<>> THEN None ELSE Some(poly[1].latitude),
                longitud |-> IF poly = <<>> THEN None ELSE Some(poly[1].longitud)])

\* one item of a page.  FarmRiskItem declares _id with a leading underscore,
\* which pydantic keeps out of the fields: the body carries no _id, and doc
\* names the document the item was built from.
FarmRiskItem(s, d, analysis_oid) ==
  [doc |-> d.id,
   analysis_id |-> analysis_oid,
   farm_id |-> d.farm_id,
   risk_direct |-> d.risk_direct, risk_input |-> d.risk_input,
   risk_output |-> d.risk_output,
   deforestation |-> d.deforestation,
   farm |-> FarmInfo(s, d.farm_id)]

\* the handler behind the Query constraints page >= 1 and 1 <= page_size <= 200
get_farmrisk_by_analysis_id_page(s, analysis_id, page, page_size) ==
  LET analysis_oid == as_object_id(analysis_id)
      skip == (page - 1) * page_size
      found == sort_by_id(SelectSeq(s.farmrisk, LAMBDA r : r.analysis_id = analysis_oid))
      last == IF skip + page_size < Len(found) THEN skip + page_size ELSE Len(found)
      risk_docs == SubSeq(found, skip + 1, last)
  IN IF page < 1 \/ page_size < 1 \/ page_size > PAGE_SIZE_MAX
     THEN HTTPException(422, <<"validation error">>)
     ELSE IF analysis_oid = Null
     THEN HTTPException(400, <<"Invalid ObjectId", analysis_id>>)
     ELSE Ok([page |-> page, page_size |-> page_size,
              items |-> [i \in 1..Len(risk_docs) |->
                           FarmRiskItem(s, risk_docs[i], analysis_oid)]])

FarmRiskPageEndpoint == "/farmrisk/by-analysis-id"

PageSizes == (1..MaxPageSize) \cup {PAGE_SIZE_DEFAULT, PAGE_SIZE_MAX, PAGE_SIZE_MAX + 1}

InitFarmRiskPages ==
  /\ db \in {PagedRiskStore(rows) : rows \in PagedRiskLists}
  /\ req = NoRequest
  /\ resp = NoResponse

\* a client asks for the first page; pages holds the pages it got before
FirstPage ==
  /\ req = NoRequest /\ resp = NoResponse
  /\ \E analysis_id \in {"a", "b", "c", "zz"}, page_size \in PageSizes :
       /\ req' = [endpoint |-> FarmRiskPageEndpoint, analysis_id |-> analysis_id,
                  page |-> 1, page_size |-> page_size, pages |-> <<>>]
       /\ resp' = get_farmrisk_by_analysis_id_page(db, analysis_id, 1, page_size)
  /\ UNCHANGED db

\* the same client asks for the following page
FollowingPage ==
  /\ req.endpoint = FarmRiskPageEndpoint /\ resp.status = 200
  /\ resp.body.items # <<>>
  /\ req.page < MaxPageRequests
  /\ req' = [req EXCEPT !.page = @ + 1, !.pages = Append(@, resp.body.items)]
  /\ resp' = get_farmrisk_by_analysis_id_page(db, req.analysis_id, req.page + 1,
                                              req.page_size)
  /\ UNCHANGED db

NextFarmRiskPages == FirstPage \/ FollowingPage \/ Deliver

SpecFarmRiskPages == InitFarmRiskPages /\ [][NextFarmRiskPages]_vars

----------------------------------------------------------------------------
(* C29 *)

IsPaging == req.endpoint = FarmRiskPageEndpoint /\ resp.status = 200

\* the pages received so far, the current one last
PagesSoFar == Append(req.pages, resp.body.items)

RECURSIVE Flatten(_)
Flatten(seqs) == IF seqs = <<>> THEN <<>> ELSE Head(seqs) \o Flatten(Tail(seqs))

\* the documents behind the items, in the order received
DocsReceived == LET all == Flatten(PagesSoFar) IN [i \in 1..Len(all) |-> all[i].doc]

\* C29: pages 1, 2, ... of GET /farmrisk/by-analysis-id for one analysis and
\* page size over unchanged data hold the FarmRisk rows in ascending _id order,
\* no row twice, each page at most page_size (<= 200) rows, and up to the
\* first empty page exactly the FarmRisk rows of the analysis.
C29_PagesPartitionRows ==
  IsPaging =>
    /\ req.page_size <= PAGE_SIZE_MAX
    /\ \A p \in 1..Len(PagesSoFar) : Len(PagesSoFar[p]) <= req.page_size
    /\ \A i, j \in 1..Len(DocsReceived) :
         i < j => IdRank(DocsReceived[i]) < IdRank(DocsReceived[j])
    /\ Range(DocsReceived)
         \subseteq {r.id : r \in {q \in Range(db.farmrisk) :
                                    q.analysis_id = ObjectIdStr(req.analysis_id)}}
    /\ resp.body.items = <<>>
       => Range(DocsReceived)
            = {r.id : r \in {q \in Range(db.farmrisk) :
                               q.analysis_id = ObjectIdStr(req.analysis_id)}}

\* three rows of the analysis, stored out of _id order, were read in three
\* pages of one row and the fourth page is empty
C29_Witness ==
  /\ IsPaging
  /\ req.page = 4 /\ req.page_size = 1
  /\ resp.body.items = <<>>
  /\ DocsReceived = <<"r1", "r3", "r4">>
  /\ db.farmrisk[1].id = "r4"

----------------------------------------------------------------------------
(* Two token validations running in threads of the worker pool.
   validate_local_token is a plain def, which FastAPI runs in its thread
   pool, so the reads and writes of two calls interleave.  req and resp hold
   one entry per caller. *)

Callers == {1, 2}

\* the ObjectId each caller's User(...) gets when it is saved
FreshUserIds == <<"u3", "u4">>

\* Whether the user collection has a unique index on ext_id is decided by the
\* ganabosques_orm package, which this repository does not contain.
ExtIdIndexes == {"none", "unique"}

ValidationStore(index) == [user |-> UserDocs, ext_id_index |-> index]

TokenValidateEndpoint == "/auth/token/validate"

\* lines 17-50: everything up to User.objects(ext_id=ext_id).first()
find_user(s, token, jwks) ==
  LET checked == validate_local_token(s, token, jwks)
  IN IF ~checked.ok THEN [ok |-> FALSE, err |-> checked.err]
     ELSE [ok |-> TRUE, user_obj |-> UserByExtId(s, token.sub[1])]

\* lines 53-58: if not user_obj: User(ext_id=ext_id, admin=False).save().
\* Under a unique index the insert of a second document with the ext_id
\* raises NotUniqueError, which no except clause of the function catches.
save_user(s, p, ext_id, user_obj) ==
  IF user_obj # <<>> THEN [ok |-> TRUE, store |-> s]
  ELSE IF s.ext_id_index = "unique" /\ UserByExtId(s, ext_id) # <<>>
  THEN [ok |-> FALSE, store |-> s, err |-> Unhandled]
  ELSE [ok |-> TRUE,
        store |-> [s EXCEPT !.user =
                     Append(@, [id |-> FreshUserIds[p], ext_id |-> ext_id,
                                admin |-> FALSE])]]

InitValidations ==
  /\ db \in {ValidationStore(index) : index \in ExtIdIndexes}
  /\ req = [p \in Callers |-> NoRequest]
  /\ resp = [p \in Callers |-> NoResponse]

\* a request arrives and runs up to the lookup of the user
FindUser(p) ==
  /\ req[p] = NoRequest
  /\ \E token \in Tokens \ {[kind |-> "missing", sub |-> None]}, jwks \in JwksOutcomes :
       LET r == find_user(db, token, jwks)
       IN /\ req' = [req EXCEPT ![p] =
                       [endpoint |-> TokenValidateEndpoint, token |-> token,
                        pc |-> IF r.ok THEN "save" ELSE "done",
                        user_obj |-> IF r.ok THEN r.user_obj ELSE <<>>]]
          /\ resp' = IF r.ok THEN resp ELSE [resp EXCEPT ![p] = r.err]
  /\ UNCHANGED db

\* the user is created when the lookup found none
SaveUser(p) ==
  /\ req[p].endpoint = TokenValidateEndpoint /\ req[p].pc = "save"
  /\ LET r == save_user(db, p, req[p].token.sub[1], req[p].user_obj)
     IN /\ db' = r.store
        /\ req' = [req EXCEPT ![p].pc = IF r.ok THEN "serialize" ELSE "done"]
        /\ resp' = IF r.ok THEN resp ELSE [resp EXCEPT ![p] = r.err]

\* lines 60-69: the payload with serialize_user_permissions(ext_id)
SerializeUser(p) ==
  /\ req[p].endpoint = TokenValidateEndpoint /\ req[p].pc = "serialize"
  /\ req' = [req EXCEPT ![p].pc = "done"]
  /\ resp' = [resp EXCEPT ![p] =
                Ok([valid |-> TRUE,
                    user_db |-> serialize_user_permissions(db, req[p].token.sub[1])])]
  /\ UNCHANGED db

NextValidations == \E p \in Callers : FindUser(p) \/ SaveUser(p) \/ SerializeUser(p)

SpecValidations == InitValidations /\ [][NextValidations]_vars

----------------------------------------------------------------------------
(* C30 *)

\* both callers carried a valid token of the same subject, which the store
\* did not know, and both validations have ended
BothValidatedUnknown ==
  /\ \A p \in Callers : req[p].endpoint = TokenValidateEndpoint /\ req[p].pc = "done"
  /\ \A p \in Callers : req[p].token.kind = "valid" /\ req[p].token.sub # None
  /\ req[1].token.sub = req[2].token.sub
  /\ UserByExtId(ValidationStore(db.ext_id_index), req[1].token.sub[1]) = <<>>

\* C30: after two concurrent validations of valid tokens of one unknown
\* subject at most one User document has that ext_id, and every User that
\* token validation created has admin = FALSE.
C30_OneUserPerSubject ==
  /\ BothValidatedUnknown => Len(UserByExtId(db, req[1].token.sub[1])) <= 1
  /\ \A i \in 1..Len(db.user) :
       db.user[i].id \in Range(FreshUserIds) => ~db.user[i].admin

\* the second half alone: users created by validation are never administrators
C30_CreatedNotAdmin ==
  \A i \in 1..Len(db.user) :
    db.user[i].id \in Range(FreshUserIds) => ~db.user[i].admin

\* both validations of the unknown subject ended with 200
C30_BothAnswered ==
  BothValidatedUnknown /\ \A p \in Callers : resp[p].status = 200

====
